---- MODULE Spec2Model ----
(***************************************************************************)
(* Identity resolution and ranking engine of the job ETL pipeline:         *)
(* normalization, fingerprinting, the staging identity store (upsert /     *)
(* merge inside PostgreSQL transactions), the ranker, the seniority        *)
(* classifier and the retry wrapper of the source extractor.               *)
(***************************************************************************)
EXTENDS Integers, Sequences, FiniteSets, TLC

(***************************************************************************)
(* Bounds of the model.                                                    *)
(***************************************************************************)
\* largest number of rows in one batch
MaxBatch == 3
\* largest number of rows in one batch when two runs are concurrent
MaxConcurrentBatch == 2
\* number of calls of the store's operations in one behaviour
MaxCalls == 3
\* number of runs of the normalizer that reach the store
MaxRuns == 2
\* largest number of rows one run of the normalizer fetches
MaxFetched == 3
\* largest LIMIT of the ranker's fetch (0 is no limit)
MaxLimit == 2
\* largest number of rankings another caller passes in one batch
MaxDirect == 2

\* the normalizer runs (database connections) that may be active at once
Runs == {"run1", "run2"}

(***************************************************************************)
(* Python values.  Every value carries its dynamic type: t is one of       *)
(* "none", "str", "num", "ts" (datetime), "list", "obj"; s is the text of  *)
(* a str (or the printed form of a list), n the magnitude of a num or ts.  *)
(***************************************************************************)
None == [t |-> "none", s |-> "", n |-> 0]
Str(x) == [t |-> "str", s |-> x, n |-> 0]
Num(k) == [t |-> "num", s |-> "", n |-> k]
Ts(k) == [t |-> "ts", s |-> "", n |-> k]
List(x) == [t |-> "list", s |-> x, n |-> 0]
Obj == [t |-> "obj", s |-> "", n |-> 0]

\* Python truthiness of a value (`not v` is its negation)
Truthy(v) ==
    CASE v.t = "none" -> FALSE
      [] v.t = "str" -> v.s # ""
      [] v.t = "num" -> v.n # 0
      [] v.t = "list" -> v.s # ""
      [] OTHER -> TRUE

(***************************************************************************)
(* Strings, character by character.                                        *)
(***************************************************************************)
UpperAlpha == "ABCDEFGHIJKLMNOPQRSTUVWXYZ"
LowerAlpha == "abcdefghijklmnopqrstuvwxyz"

CharAt(s, i) == SubSeq(s, i, i)

IsSpace(c) == c \in {" ", "\t", "\n"}

LowerChar(c) ==
    IF \E i \in 1..26 : CharAt(UpperAlpha, i) = c
    THEN CharAt(LowerAlpha, CHOOSE i \in 1..26 : CharAt(UpperAlpha, i) = c)
    ELSE c

RECURSIVE Lower(_)
\* str.lower()
Lower(s) == IF s = "" THEN "" ELSE LowerChar(Head(s)) \o Lower(Tail(s))

\* str.upper() of one character and of a text
UpperChar(c) ==
    IF \E i \in 1..26 : CharAt(LowerAlpha, i) = c
    THEN CharAt(UpperAlpha, CHOOSE i \in 1..26 : CharAt(LowerAlpha, i) = c)
    ELSE c

RECURSIVE Upper(_)
Upper(s) == IF s = "" THEN "" ELSE UpperChar(Head(s)) \o Upper(Tail(s))

RECURSIVE LStrip(_)
LStrip(s) == IF s # "" /\ IsSpace(Head(s)) THEN LStrip(Tail(s)) ELSE s

RECURSIVE RStrip(_)
RStrip(s) ==
    IF s # "" /\ IsSpace(CharAt(s, Len(s)))
    THEN RStrip(SubSeq(s, 1, Len(s) - 1))
    ELSE s

\* str.strip()
Strip(s) == RStrip(LStrip(s))

RECURSIVE CollapseSpaces(_)
\* re.sub(r'\s+', ' ', s): every run of whitespace becomes one space
CollapseSpaces(s) ==
    IF s = "" THEN ""
    ELSE IF IsSpace(Head(s))
         THEN " " \o CollapseSpaces(LStrip(Tail(s)))
         ELSE Head(s) \o CollapseSpaces(Tail(s))

\* a normalization that trims and leaves the internal whitespace
strip_only(text) == Strip(text)

\* hash_generator.normalize_whitespace
normalize_whitespace(text) ==
    IF text = "" THEN "" ELSE CollapseSpaces(Strip(text))

(***************************************************************************)
(* Fingerprint.  hashlib.md5 is taken as collision free: the digest of a   *)
(* composite key is written md5:<composite key>.  An exception is the     *)
(* result that names it: "ValueError", "AttributeError".                   *)
(***************************************************************************)
md5_hexdigest(composite_key) == "md5:" \o composite_key

\* a key generated without the check for empty fields
generate_hash_key_unchecked(company, job_title, location) ==
    LET norm(text) == IF ~Truthy(text) THEN "" ELSE Lower(normalize_whitespace(text.s))
    IN  IF \E text \in {company, job_title, location} : Truthy(text) /\ text.t # "str"
        THEN "AttributeError"
        ELSE md5_hexdigest(norm(company) \o "|" \o norm(job_title) \o "|"
                            \o norm(location))

\* The arguments are values: `not text` returns "" for a falsy one of any
\* type, text.strip() of a truthy value that is no str is an AttributeError
generate_hash_key(company, job_title, location) ==
    LET norm(text) == IF ~Truthy(text) THEN "" ELSE Lower(normalize_whitespace(text.s))
        company_norm == norm(company)
        title_norm == norm(job_title)
        location_norm == norm(location)
    IN  IF \E text \in {company, job_title, location} : Truthy(text) /\ text.t # "str"
        THEN "AttributeError"
        ELSE IF company_norm = "" \/ title_norm = "" \/ location_norm = ""
        THEN "ValueError"
        ELSE md5_hexdigest(company_norm \o "|" \o title_norm \o "|" \o location_norm)

(***************************************************************************)
(* Normalization Engine (normalizer/normalize.py).  An exception is a      *)
(* value whose t is "raise".                                               *)
(***************************************************************************)
Raise(x) == [t |-> "raise", s |-> x, n |-> 0]

VALID_REMOTE_TYPES == {"remote", "hybrid", "onsite", "unknown"}
VALID_CONTRACT_TYPES ==
    {"full_time", "part_time", "contract", "intern", "temp", "unknown"}
VALID_COMPANY_SIZES ==
    {"1-10", "11-50", "51-200", "201-500", "501-1000", "1001-5000", "5001+",
     "unknown"}

\* an enum value returned as it is when it is valid
_normalize_enum_as_is(value, valid_values, default) ==
    IF value.t # "str" THEN default
    ELSE IF value.s \notin valid_values THEN default ELSE value.s

\* normalize._normalize_enum (the field name only feeds the log)
_normalize_enum(value, valid_values, default) ==
    IF value.t = "none" \/ value = Str("") THEN default
    ELSE IF value.t # "str" THEN default
    ELSE LET normalized == Strip(Lower(value.s))
         IN  IF normalized \notin valid_values THEN default ELSE normalized

\* datetime.fromisoformat on the texts the model feeds it: a date
\* YYYY-MM-DD of digits, optionally followed by +00:00; anything else is a
\* ValueError (the empty string).  The instant is the day of the month.
Digits == "0123456789"
IsDigit(c) == \E i \in 1..10 : CharAt(Digits, i) = c
DigitVal(c) == (CHOOSE i \in 1..10 : CharAt(Digits, i) = c) - 1

IsIsoDate(s) ==
    /\ Len(s) = 10
    /\ \A i \in {1, 2, 3, 4, 6, 7, 9, 10} : IsDigit(CharAt(s, i))
    /\ CharAt(s, 5) = "-" /\ CharAt(s, 8) = "-"

fromisoformat(s) ==
    LET d == IF Len(s) = 16 /\ SubSeq(s, 11, 16) = "+00:00"
             THEN SubSeq(s, 1, 10) ELSE s
    IN  IF IsIsoDate(d)
        THEN Ts(10 * DigitVal(CharAt(d, 9)) + DigitVal(CharAt(d, 10)))
        ELSE Raise("ValueError")

RECURSIVE ReplaceZ(_)
\* value.replace('Z', '+00:00')
ReplaceZ(s) ==
    IF s = "" THEN ""
    ELSE (IF Head(s) = "Z" THEN "+00:00" ELSE Head(s)) \o ReplaceZ(Tail(s))

\* datetime.fromtimestamp(value, tz=utc).  A num whose s is
\* "year_out_of_range" or "nan" makes it raise ValueError, one whose s is
\* "value_too_large" makes it raise OSError, one whose s is
\* "time_t_overflow" or "inf" makes it raise OverflowError.
fromtimestamp(value) ==
    CASE value.s \in {"year_out_of_range", "nan"} -> Raise("ValueError")
      [] value.s = "value_too_large" -> Raise("OSError")
      [] value.s \in {"time_t_overflow", "inf"} -> Raise("OverflowError")
      [] OTHER -> Ts(value.n)

\* normalize._parse_timestamp
_parse_timestamp(value) ==
    CASE value.t = "none" -> None
      [] value.t = "ts" -> value
      [] value.t = "str" ->
            LET r == fromisoformat(ReplaceZ(value.s))
            IN  IF r = Raise("ValueError") THEN None ELSE r
      [] value.t = "num" ->
            LET r == fromtimestamp(value)
            IN  IF r \in {Raise("ValueError"), Raise("OSError")} THEN None ELSE r
      [] OTHER -> None

RECURSIVE DigitsValue(_)
DigitsValue(s) ==
    IF s = "" THEN 0
    ELSE 10 * DigitsValue(SubSeq(s, 1, Len(s) - 1)) + DigitVal(CharAt(s, Len(s)))

\* float(text): surrounding whitespace is ignored; the model reads unsigned
\* digit strings and "nan"; anything else is a ValueError.
float_of_str(text) ==
    LET x == Strip(text)
    IN  IF x # "" /\ \A i \in 1..Len(x) : IsDigit(CharAt(x, i))
        THEN Num(DigitsValue(x))
        ELSE IF Lower(x) = "nan" THEN [t |-> "num", s |-> "nan", n |-> 0]
        ELSE Raise("ValueError")

\* normalize._parse_numeric
_parse_numeric(value) ==
    CASE value.t = "none" -> None
      [] value.t = "num" -> value
      [] value.t = "str" ->
            LET r == float_of_str(value.s)
            IN  IF r = Raise("ValueError") THEN None ELSE r
      [] OTHER -> None

RECURSIVE NatToStr(_)
NatToStr(k) ==
    IF k < 10 THEN CharAt(Digits, k + 1)
    ELSE NatToStr(k \div 10) \o CharAt(Digits, (k % 10) + 1)

\* str(value) of a value that is not a str
PyStr(value) ==
    CASE value.t = "num" -> (IF value.s # "" THEN value.s ELSE NatToStr(value.n))
      [] value.t = "ts" -> "datetime(" \o NatToStr(value.n) \o ")"
      [] value.t = "list" -> "[" \o value.s \o "]"
      [] OTHER -> "{}"

\* normalize._safe_string
_safe_string(value) ==
    CASE value.t = "none" -> None
      [] value.t = "str" ->
            LET stripped == Strip(value.s)
            IN  IF stripped # "" THEN Str(stripped) ELSE None
      [] OTHER -> Str(PyStr(value))

\* a > b on floats (a comparison with NaN is false)
FloatGt(a, b) == a.s # "nan" /\ b.s # "nan" /\ a.n > b.n

\* The canonical record normalize_job_posting builds, once the required
\* fields are validated and the hash key is generated
BuildNormalized(raw_data, source, hash_key) ==
    LET remote_type ==
            _normalize_enum(raw_data.remote_type, VALID_REMOTE_TYPES, "unknown")
        contract_type ==
            _normalize_enum(raw_data.contract_type, VALID_CONTRACT_TYPES, "unknown")
        company_size ==
            _normalize_enum(raw_data.company_size, VALID_COMPANY_SIZES, "unknown")
        posted_at == _parse_timestamp(raw_data.posted_at)
        smin == _parse_numeric(raw_data.salary_min)
        smax == _parse_numeric(raw_data.salary_max)
        swap == smin.t # "none" /\ smax.t # "none" /\ FloatGt(smin, smax)
    IN  [hash_key |-> hash_key,
         provider_job_id |-> _safe_string(raw_data.provider_job_id),
         job_link |-> _safe_string(raw_data.job_link),
         job_title |-> Str(Strip(raw_data.job_title.s)),
         company |-> Str(Strip(raw_data.company.s)),
         company_size |-> Str(company_size),
         location |-> Str(Strip(raw_data.location.s)),
         remote_type |-> Str(remote_type),
         contract_type |-> Str(contract_type),
         salary_min |-> IF swap THEN smax ELSE smin,
         salary_max |-> IF swap THEN smin ELSE smax,
         salary_currency |-> _safe_string(raw_data.salary_currency),
         description |-> _safe_string(raw_data.description),
         skills_raw |-> IF raw_data.skills_raw.t = "list"
                        THEN raw_data.skills_raw ELSE None,
         posted_at |-> posted_at,
         apply_url |-> _safe_string(raw_data.apply_url),
         source |-> Str(source)]

\* normalize.normalize_job_posting: [err, job].  err is "" and job the
\* canonical record, or err is the exception raised and job is <<>>.
normalize_job_posting(raw_data, source) ==
    LET job_title == raw_data.job_title
        company == raw_data.company
        location == raw_data.location
        invalid(v) == ~Truthy(v) \/ v.t # "str"
    IN  IF invalid(job_title) \/ invalid(company) \/ invalid(location)
        THEN [err |-> "NormalizationError", job |-> <<>>]
        ELSE LET hash_key == generate_hash_key(company, job_title, location)
             IN  IF hash_key = "ValueError"
                 THEN [err |-> "NormalizationError", job |-> <<>>]
                 ELSE IF _parse_timestamp(raw_data.posted_at).t = "raise"
                      \* the generic handler wraps any other exception
                      THEN [err |-> "NormalizationError", job |-> <<>>]
                      ELSE [err |-> "",
                            job |-> BuildNormalized(raw_data, source, hash_key)]

(***************************************************************************)
(* Common-format records offered to the normalizer.                        *)
(***************************************************************************)
Common(title, company, location) ==
    [job_title |-> title, company |-> company, location |-> location,
     provider_job_id |-> None, job_link |-> None, company_size |-> None,
     remote_type |-> None, contract_type |-> None, salary_min |-> None,
     salary_max |-> None, salary_currency |-> None, description |-> None,
     skills_raw |-> None, posted_at |-> None, apply_url |-> None]

\* every optional field filled in
WithDetails(c) ==
    [c EXCEPT !.provider_job_id = Str("j1"), !.job_link = Str("l1"),
              !.company_size = Str("11-50"), !.remote_type = Str("Hybrid"),
              !.contract_type = Str("full_time"), !.salary_min = Num(70),
              !.salary_max = Str("50"), !.salary_currency = Str("CAD"),
              !.description = Str("etl"), !.skills_raw = List("sql"),
              !.posted_at = Str("2025-10-15"), !.apply_url = Str("a1")]

AcmeFull == WithDetails(Common(Str("De"), Str("Ac  Co"), Str("Mtl")))
\* the same posting, organization in another case and spacing
AcmeUpper == WithDetails(Common(Str("De"), Str("AC CO "), Str("Mtl")))
\* the same posting observed without any optional field
AcmeBare == Common(Str("De"), Str("Ac  Co"), Str("Mtl"))
\* another posting
BetaFull ==
    [WithDetails(Common(Str("De"), Str("Beta"), Str("Mtl")))
        EXCEPT !.remote_type = Str("remote"), !.provider_job_id = Num(7)]

CommonPool == {AcmeFull, AcmeUpper, AcmeBare, BetaFull}

\* the canonical records the store is offered
JobPool == {normalize_job_posting(c, "jsearch").job : c \in CommonPool}

\* the canonical records two concurrent runs offer
ConcurrentPool ==
    {normalize_job_posting(c, "jsearch").job : c \in {AcmeFull, AcmeBare, BetaFull}}

(***************************************************************************)
(* Identity store: staging.job_postings_stg inside PostgreSQL.             *)
(***************************************************************************)
VARIABLES
    stg,            \* the committed rows of staging.job_postings_stg
    clock,          \* NOW() of the transaction started last
    pc,             \* per run: "idle" or "open" (inside _get_connection)
    mode,           \* per run: "single" (upsert_staging_job) or "batch"
    now,            \* per run: NOW() of its transaction, 0 before it starts
    ws,             \* per run: row versions its transaction wrote
    txn,            \* per run: "ok", "aborted" (a statement failed) or "lost"
    pending,        \* per run: the job whose statement waits for a row lock
    success_count,  \* per run: local of upsert_staging_jobs_batch
    failed_count,   \* per run: local of upsert_staging_jobs_batch
    log,            \* per run: the statements of the call, and which succeeded
    calls,          \* calls made so far
    ev              \* what the last step did

storeVars == <<stg, clock, pc, mode, now, ws, txn, pending, success_count,
               failed_count, log, calls, ev>>

VARIABLES
    normalizer      \* the locals of run_normalizer: pc is where it stands,
                    \* done the number of raw_jobs the loop has been over,
                    \* jobs the argument of db.upsert_staging_jobs_batch

normVars == <<normalizer>>

VARIABLES
    fact,           \* the committed rows of marts.fact_jobs
    updater,        \* update_jobs_ranking_batch: its argument and locals,
                    \* rows is the table as its transaction sees it
    ranker,         \* the locals of run_ranker: pc is where it stands, done
                    \* the number of jobs the loop has been over
    rank_ev         \* what the last step of the ranker did

rankVars == <<fact, updater, ranker, rank_ev>>

VARIABLES
    call            \* a call of a function of the scoring or normalization
                    \* modules on its own: fn is the function, pc is "called"
                    \* before its body has run and "returned" after

callVars == <<call>>

\* the columns DO UPDATE SET overwrites with EXCLUDED.<column>
OverwrittenColumns == {"job_title", "company", "location", "source"}
\* the columns DO UPDATE SET writes as COALESCE(EXCLUDED.<column>, <column>)
CoalescedColumns ==
    {"provider_job_id", "job_link", "company_size", "remote_type",
     "contract_type", "salary_min", "salary_max", "salary_currency",
     "description", "skills_raw", "posted_at", "apply_url"}

COALESCE(a, b) == IF a.t # "none" THEN a ELSE b

\* INSERT ... VALUES (..., NOW(), NOW())
InsertedRow(job, t) ==
    [c \in DOMAIN job \cup {"first_seen_at", "last_seen_at"} |->
        IF c \in {"first_seen_at", "last_seen_at"} THEN t ELSE job[c]]

\* a DO UPDATE SET that also writes first_seen_at = NOW()
UpdatedRowResetsFirstSeen(existing, job, t) ==
    [c \in DOMAIN existing |->
        CASE c \in {"first_seen_at", "last_seen_at"} -> t
          [] c \in OverwrittenColumns -> job[c]
          [] c \in CoalescedColumns -> COALESCE(job[c], existing[c])
          [] OTHER -> existing[c]]

\* a DO UPDATE SET that writes EXCLUDED.<column> to every column
UpdatedRowOverwritesAll(existing, job, t) ==
    [c \in DOMAIN existing |->
        CASE c = "last_seen_at" -> t
          [] c \in OverwrittenColumns \cup CoalescedColumns -> job[c]
          [] OTHER -> existing[c]]

\* a DO UPDATE SET without company = EXCLUDED.company
UpdatedRowKeepsCompany(existing, job, t) ==
    [c \in DOMAIN existing |->
        CASE c = "last_seen_at" -> t
          [] c \in OverwrittenColumns \ {"company"} -> job[c]
          [] c \in CoalescedColumns -> COALESCE(job[c], existing[c])
          [] OTHER -> existing[c]]

\* a DO UPDATE SET that keeps a stored enum value when the new one is unknown
UpdatedRowKeepsKnown(existing, job, t) ==
    [c \in DOMAIN existing |->
        CASE c = "last_seen_at" -> t
          [] c \in OverwrittenColumns -> job[c]
          [] c \in {"remote_type", "contract_type", "company_size"} ->
                IF job[c] = Str("unknown") THEN existing[c] ELSE job[c]
          [] c \in CoalescedColumns -> COALESCE(job[c], existing[c])
          [] OTHER -> existing[c]]

\* ON CONFLICT (hash_key) DO UPDATE SET ...
UpdatedRow(existing, job, t) ==
    [c \in DOMAIN existing |->
        CASE c = "last_seen_at" -> t
          [] c \in OverwrittenColumns -> job[c]
          [] c \in CoalescedColumns -> COALESCE(job[c], existing[c])
          [] OTHER -> existing[c]]

\* an INSERT without the ON CONFLICT arbiter
NoArbiter(rows, job) == {}

\* the rows the arbiter ON CONFLICT (hash_key) finds in conflict with job
ConflictRows(rows, job) == {x \in rows : x.hash_key = job.hash_key}

\* the row versions run r sees: its own writes over the committed rows
Visible(r) ==
    {w.cur : w \in ws[r]} \cup
    {x \in stg : \A w \in ws[r] : x \notin w.base}

\* the upsert statement against the rows it sees: the new version and the
\* versions it replaces
UpsertStatement(rows, job, t) ==
    LET hit == ConflictRows(rows, job)
    IN  IF hit = {} THEN [base |-> {}, cur |-> InsertedRow(job, t)]
        ELSE LET existing == CHOOSE x \in hit : TRUE
             IN  [base |-> hit, cur |-> UpdatedRow(existing, job, t)]

\* an upsert that does not wait for the other transaction's row
NeverBlocked(r, job) == FALSE

\* a row lock another open transaction holds on the job's fingerprint
Blocked(r, job) ==
    \E o \in Runs \ {r} : \E w \in ws[o] : w.cur.hash_key = job.hash_key

NoJob == <<>>

\* the rows after the transaction's row versions become the committed ones
Committed(rows, writes) ==
    (rows \ UNION {w.base : w \in writes}) \cup {w.cur : w \in writes}

\* a connection in autocommit mode: rollback discards nothing
NotRolledBack(rows, writes) == Committed(rows, writes)

\* conn.rollback(): the transaction's row versions are discarded
RolledBack(rows, writes) == rows

\* run r's row versions after its statement wrote res
Written(writes, res) ==
    LET own == {w \in writes : w.cur \in res.base}
    IN  (writes \ own) \cup
        {[base |-> (res.base \ {w.cur : w \in own}) \cup UNION {w.base : w \in own},
          cur |-> res.cur]}

Quiet == [kind |-> "none"]

\* the transaction's NOW(): fixed when its first statement is sent; a later
\* transaction has a later NOW()
TxnNow(r) == IF now[r] = 0 THEN clock + 1 ELSE now[r]

\* how the call of run r ends: what it returns or raises, the committed
\* rows before and after its last step, and its statements
Ended(r, m, outcome, value, after, statements) ==
    [kind |-> "end", run |-> r, mode |-> m, outcome |-> outcome,
     value |-> value, before |-> stg, after |-> after, log |-> statements,
     t |-> now[r], txn |-> txn[r]]

\* the locals of run r back to their values between two calls
Reset(r) ==
    /\ pc' = [pc EXCEPT ![r] = "idle"]
    /\ now' = [now EXCEPT ![r] = 0]
    /\ ws' = [ws EXCEPT ![r] = {}]
    /\ txn' = [txn EXCEPT ![r] = "ok"]
    /\ pending' = [pending EXCEPT ![r] = NoJob]
    /\ success_count' = [success_count EXCEPT ![r] = 0]
    /\ failed_count' = [failed_count EXCEPT ![r] = 0]
    /\ log' = [log EXCEPT ![r] = <<>>]

StoreInit ==
    /\ stg = {}
    /\ clock = 0
    /\ pc = [r \in Runs |-> "idle"]
    /\ mode = [r \in Runs |-> "single"]
    /\ now = [r \in Runs |-> 0]
    /\ ws = [r \in Runs |-> {}]
    /\ txn = [r \in Runs |-> "ok"]
    /\ pending = [r \in Runs |-> NoJob]
    /\ success_count = [r \in Runs |-> 0]
    /\ failed_count = [r \in Runs |-> 0]
    /\ log = [r \in Runs |-> <<>>]
    /\ calls = 0
    /\ ev = [kind |-> "init"]

\* upsert_staging_job / upsert_staging_jobs_batch entered:
\* psycopg2.connect in _get_connection
Connect(r, m) ==
    /\ pc[r] = "idle" /\ calls < MaxCalls
    /\ calls' = calls + 1
    /\ mode' = [mode EXCEPT ![r] = m]
    /\ \/ /\ pc' = [pc EXCEPT ![r] = "open"]
          /\ ev' = Quiet
          /\ UNCHANGED <<stg, clock, now, ws, txn, pending, success_count,
                         failed_count, log>>
       \/ \* the connection cannot be made: DatabaseError
          /\ ev' = Ended(r, m, "raise", 0, stg, <<>>)
          /\ UNCHANGED <<stg, clock, pc, now, ws, txn, pending, success_count,
                         failed_count, log>>

\* upsert_staging_jobs_batch([]) returns 0 without a connection
BatchEmpty(r) ==
    /\ pc[r] = "idle" /\ calls < MaxCalls
    /\ calls' = calls + 1
    /\ mode' = [mode EXCEPT ![r] = "batch"]
    /\ ev' = Ended(r, "batch", "return", 0, stg, <<>>)
    /\ UNCHANGED <<stg, clock, pc, now, ws, txn, pending, success_count,
                   failed_count, log>>

\* cur.execute(query, job) raises psycopg2.Error.  In the batch the error is
\* caught and counted; in upsert_staging_job it leaves through
\* _get_connection (rollback) and is raised as DatabaseError.  PostgreSQL
\* aborts the transaction, which drops its row versions and locks.
StatementFails(r, job, fault, state) ==
    /\ clock' = IF now[r] = 0 THEN clock + 1 ELSE clock
    /\ IF mode[r] = "batch"
       THEN /\ failed_count' = [failed_count EXCEPT ![r] = @ + 1]
            /\ log' = [log EXCEPT ![r] = Append(@, [job |-> job, ok |-> FALSE,
                                                     fault |-> fault])]
            /\ txn' = [txn EXCEPT ![r] = state]
            /\ ws' = [ws EXCEPT ![r] = {}]
            /\ pending' = [pending EXCEPT ![r] = NoJob]
            /\ now' = [now EXCEPT ![r] = TxnNow(r)]
            /\ ev' = [kind |-> "rowfail", run |-> r, job |-> job, fault |-> fault]
            /\ UNCHANGED <<stg, pc, mode, success_count, calls>>
       ELSE /\ ev' = [Ended(r, "single", "raise", 0, RolledBack(stg, ws[r]),
                            <<[job |-> job, ok |-> FALSE, fault |-> fault]>>)
                        EXCEPT !.t = TxnNow(r), !.txn = state]
            /\ stg' = RolledBack(stg, ws[r])
            /\ Reset(r)
            /\ UNCHANGED <<mode, calls>>

\* cur.execute(query, job): one INSERT ... ON CONFLICT statement of a call
\* that sends at most limit statements
Execute(r, job, limit) ==
    /\ pc[r] = "open"
    /\ Len(log[r]) < limit
    /\ pending[r] \in {NoJob, job}
    /\ \/ \* an earlier statement failed: the transaction accepts nothing
          /\ txn[r] # "ok"
          /\ StatementFails(r, job, "transaction", txn[r])
       \/ \* the row is locked by another transaction: wait
          /\ txn[r] = "ok" /\ Blocked(r, job) /\ pending[r] = NoJob
          /\ pending' = [pending EXCEPT ![r] = job]
          /\ now' = [now EXCEPT ![r] = TxnNow(r)]
          /\ clock' = IF now[r] = 0 THEN clock + 1 ELSE clock
          /\ ev' = Quiet
          /\ UNCHANGED <<stg, pc, mode, ws, txn, success_count,
                         failed_count, log, calls>>
       \/ \* the statement succeeds
          /\ txn[r] = "ok" /\ ~Blocked(r, job)
          /\ LET res == UpsertStatement(Visible(r), job, TxnNow(r))
             IN  /\ ws' = [ws EXCEPT ![r] = Written(@, res)]
                 /\ ev' = [kind |-> "upsert", run |-> r, job |-> job,
                           old |-> res.base, new |-> res.cur, t |-> TxnNow(r)]
          /\ success_count' = [success_count EXCEPT ![r] = @ + 1]
          /\ log' = [log EXCEPT ![r] = Append(@, [job |-> job, ok |-> TRUE,
                                                   fault |-> "none"])]
          /\ pending' = [pending EXCEPT ![r] = NoJob]
          /\ now' = [now EXCEPT ![r] = TxnNow(r)]
          /\ clock' = IF now[r] = 0 THEN clock + 1 ELSE clock
          /\ UNCHANGED <<stg, pc, mode, txn, failed_count, calls>>
       \/ \* the row violates a constraint of the table
          /\ txn[r] = "ok" /\ ~Blocked(r, job)
          /\ StatementFails(r, job, "constraint", "aborted")
       \/ \* the connection is lost
          /\ txn[r] = "ok" /\ ~Blocked(r, job)
          /\ StatementFails(r, job, "connection", "lost")

\* two transactions wait for each other's row lock: PostgreSQL makes the
\* statement of one of them fail (deadlock detected)
Deadlock(r) ==
    /\ pc[r] = "open" /\ pending[r] # NoJob /\ Blocked(r, pending[r])
    /\ \E o \in Runs \ {r} :
          /\ pending[o] # NoJob
          /\ \E w \in ws[r] : w.cur.hash_key = pending[o].hash_key
          /\ \E w \in ws[o] : w.cur.hash_key = pending[r].hash_key
    /\ StatementFails(r, pending[r], "deadlock", "aborted")

\* the value the call returns: success_count, or the one row of
\* upsert_staging_job
Returned(r) ==
    IF mode[r] = "batch" THEN success_count[r] ELSE Len(log[r])

\* the with block of _get_connection is left: conn.commit(), and on an
\* exception conn.rollback() and DatabaseError
Leave(r) ==
    /\ pc[r] = "open" /\ pending[r] = NoJob
    /\ Len(log[r]) >= 1
    /\ \/ \* COMMIT
          /\ txn[r] = "ok"
          /\ stg' = Committed(stg, ws[r])
          /\ ev' = Ended(r, mode[r], "return", Returned(r),
                         Committed(stg, ws[r]), log[r])
       \/ \* COMMIT of an aborted transaction: PostgreSQL rolls it back and
          \* reports no error
          /\ txn[r] = "aborted"
          /\ stg' = RolledBack(stg, ws[r])
          /\ ev' = Ended(r, mode[r], "return", Returned(r),
                         RolledBack(stg, ws[r]), log[r])
       \/ \* conn.commit() raises
          /\ txn[r] \in {"ok", "lost"}
          /\ stg' = RolledBack(stg, ws[r])
          /\ ev' = Ended(r, mode[r], "raise", 0, RolledBack(stg, ws[r]), log[r])
    /\ Reset(r)
    /\ UNCHANGED <<clock, mode, calls>>

\* the normalizer and the ranker while the store is called directly
Elsewhere == UNCHANGED <<normVars, rankVars, callVars>>

upsert_staging_job(r, pool) ==
    \/ Connect(r, "single") /\ Elsewhere
    \/ mode[r] = "single" /\ (\E job \in pool : Execute(r, job, 1)) /\ Elsewhere
    \/ mode[r] = "single" /\ Leave(r) /\ Elsewhere

upsert_staging_jobs_batch(r, pool, limit) ==
    \/ BatchEmpty(r) /\ Elsewhere
    \/ Connect(r, "batch") /\ Elsewhere
    \/ mode[r] = "batch" /\ (\E job \in pool : Execute(r, job, limit)) /\ Elsewhere
    \/ mode[r] = "batch" /\ Leave(r) /\ Elsewhere

(***************************************************************************)
(* Source adapter (source_extractor/adapters/jsearch_adapter.py) and the   *)
(* rows of raw.job_postings_raw.  A payload is the JSONB value of the row: *)
(* json is "object" for a dict, and every key the adapter reads is a       *)
(* field, Absent when the dict does not hold it.                           *)
(***************************************************************************)
Absent == [t |-> "absent", s |-> "", n |-> 0]
\* Python True
True == Num(1)

\* dict.get(key, default)
Get(d, key, default) == IF d[key] = Absent THEN default ELSE d[key]

RECURSIVE Join(_)
\* ", ".join(parts) of a non-empty list of str
Join(parts) ==
    IF Len(parts) = 1 THEN Head(parts).s
    ELSE Head(parts).s \o ", " \o Join(Tail(parts))

contract_type_map ==
    [x \in {"FULLTIME", "PARTTIME", "CONTRACTOR", "INTERN", "TEMPORARY"} |->
        CASE x = "FULLTIME" -> "full_time"
          [] x = "PARTTIME" -> "part_time"
          [] x = "CONTRACTOR" -> "contract"
          [] x = "INTERN" -> "intern"
          [] OTHER -> "temp"]

\* JSearchAdapter.map_to_common: [err, common].  err is "" and common the
\* common-format dict, or err is the exception raised and common is <<>>.
map_to_common(payload) ==
    LET part(key) ==
            IF Truthy(Get(payload, key, None)) THEN <<payload[key]>> ELSE <<>>
        location_parts == part("job_city") \o part("job_state") \o part("job_country")
        location == IF location_parts # <<>> THEN Join(location_parts) ELSE "Unknown"
        remote_type ==
            IF Truthy(Get(payload, "job_is_remote", None)) THEN "remote"
            ELSE IF location # "Unknown" THEN "onsite" ELSE "unknown"
        employment == Get(payload, "job_employment_type", None)
        contract_type ==
            IF employment.t = "str" /\ employment.s \in DOMAIN contract_type_map
            THEN contract_type_map[employment.s] ELSE "unknown"
    IN  IF \E k \in 1..Len(location_parts) : location_parts[k].t # "str"
        \* str.join meets an item that is not a str
        THEN [err |-> "TypeError", common |-> <<>>]
        ELSE IF employment.t = "list"
        \* dict.get with an unhashable key
        THEN [err |-> "TypeError", common |-> <<>>]
        ELSE [err |-> "",
              common |->
                [provider_job_id |-> Get(payload, "job_id", None),
                 job_link |-> Get(payload, "job_apply_link", None),
                 job_title |-> Get(payload, "job_title", Str("Unknown Title")),
                 company |-> Get(payload, "employer_name", Str("Unknown Company")),
                 company_size |-> None,
                 location |-> Str(location),
                 remote_type |-> Str(remote_type),
                 contract_type |-> Str(contract_type),
                 salary_min |-> Get(payload, "job_min_salary", None),
                 salary_max |-> Get(payload, "job_max_salary", None),
                 salary_currency |-> Get(payload, "job_salary_currency", Str("USD")),
                 description |-> Get(payload, "job_description", None),
                 skills_raw |-> None,
                 posted_at |-> Get(payload, "job_posted_at_datetime_utc", None),
                 apply_url |-> Get(payload, "job_apply_link", None),
                 source |-> Str("jsearch")]]

\* a JSearch payload with nothing but the three identity fields
Payload(title, employer, city) ==
    [json |-> "object", job_id |-> Absent, job_title |-> title,
     employer_name |-> employer, job_city |-> city, job_state |-> Absent,
     job_country |-> Absent, job_is_remote |-> Absent,
     job_employment_type |-> Absent, job_apply_link |-> Absent,
     job_min_salary |-> Absent, job_max_salary |-> Absent,
     job_salary_currency |-> Absent, job_description |-> Absent,
     job_posted_at_datetime_utc |-> Absent]

RawJob(raw_id, source, payload) ==
    [raw_id |-> raw_id, source |-> source, payload |-> payload]

\* a posting with its details
RawAcme ==
    RawJob("r1", "jsearch",
           [Payload(Str("De"), Str("Ac  Co"), Str("Mtl")) EXCEPT
               !.job_id = Str("j1"), !.job_country = Str("CA"),
               !.job_is_remote = True, !.job_employment_type = Str("FULLTIME"),
               !.job_min_salary = Num(70), !.job_max_salary = Num(50),
               !.job_posted_at_datetime_utc = Str("2025-10-15")])
\* the same posting collected again, organization in another case
RawAcmeAgain ==
    RawJob("r2", "jsearch",
           [Payload(Str("De"), Str("AC CO"), Str("Mtl")) EXCEPT
               !.job_country = Str("CA")])
\* the title is null: normalize_job_posting raises NormalizationError
RawNoTitle == RawJob("r3", "jsearch", Payload(None, Str("Beta"), Str("Mtl")))
\* a source that has no adapter
RawOtherSource == RawJob("r4", "linkedin", Payload(Str("De"), Str("Beta"), Str("Mtl")))
\* the city is a number: map_to_common raises TypeError
RawCityNumber == RawJob("r5", "jsearch", Payload(Str("De"), Str("Beta"), Num(5)))
\* the payload is a JSON array: raw_payload.get raises AttributeError
RawArray ==
    RawJob("r6", "jsearch",
           [Payload(Absent, Absent, Absent) EXCEPT !.json = "array"])

RawPool ==
    {RawAcme, RawAcmeAgain, RawNoTitle, RawOtherSource, RawCityNumber, RawArray}

RECURSIVE SeqsUpTo(_, _)
\* the sequences of at most k different members of pool
SeqsUpTo(pool, k) ==
    IF k = 0 THEN {<<>>}
    ELSE LET shorter == SeqsUpTo(pool, k - 1)
         IN  shorter \cup
             {Append(q, x) : q \in {p \in shorter : Len(p) = k - 1},
                             x \in pool} 

\* what fetch_raw_jobs may return: rows of raw.job_postings_raw, each once
RawBatches ==
    {q \in SeqsUpTo(RawPool, MaxFetched) :
        \A a, b \in 1..Len(q) : a # b => q[a] # q[b]}

(***************************************************************************)
(* run_normalizer (normalizer/main.py).  It runs on connection run1.       *)
(***************************************************************************)
\* adapters = {'jsearch': JSearchAdapter()}
adapters == {"jsearch"}

\* the try block of the loop: [err, job].  err is "" and job the canonical
\* record, "NoAdapter" when the record is left by continue, or the
\* exception raised.
ProcessRawJob(raw_job) ==
    IF raw_job.source \notin adapters THEN [err |-> "NoAdapter", job |-> <<>>]
    ELSE IF raw_job.payload.json # "object"
    \* raw_payload.get('job_id')
    THEN [err |-> "AttributeError", job |-> <<>>]
    ELSE LET mapped == map_to_common(raw_job.payload)
         IN  IF mapped.err # "" THEN [err |-> mapped.err, job |-> <<>>]
             ELSE normalize_job_posting(mapped.common, raw_job.source)

\* except Exception: stats['skipped'] += 1
except_Exception(stats) == [stats EXCEPT !.skipped = @ + 1]

\* a loop without the NormalizationError handler
except_NormalizationError_absent(stats) == except_Exception(stats)

\* except NormalizationError: stats['failed'] += 1
except_NormalizationError(stats) == [stats EXCEPT !.failed = @ + 1]

NoStats == [fetched |-> 0, normalized |-> 0, upserted |-> 0, failed |-> 0,
            skipped |-> 0]

NormIdle ==
    [pc |-> "idle", raw_jobs |-> <<>>, done |-> 0, stats |-> NoStats,
     normalized_jobs |-> <<>>, dry_run |-> FALSE, jobs |-> <<>>]

\* the store while run_normalizer works outside it
StoreQuiet ==
    /\ ev' = Quiet
    /\ UNCHANGED <<stg, clock, pc, mode, now, ws, txn, pending, success_count,
                   failed_count, log, calls>>
    /\ UNCHANGED <<rankVars, callVars>>

\* run_normalizer is called: db.fetch_raw_jobs
fetch_raw_jobs ==
    /\ normalizer.pc \in {"idle", "returned", "raised"}
    /\ calls < MaxRuns
    /\ \/ \E raw_jobs \in RawBatches, dry_run \in BOOLEAN :
             normalizer' =
                [NormIdle EXCEPT
                    !.pc = IF raw_jobs = <<>> THEN "returned" ELSE "adapters",
                    !.raw_jobs = raw_jobs, !.dry_run = dry_run,
                    !.stats.fetched = Len(raw_jobs)]
       \/ \* DatabaseError
          normalizer' = [NormIdle EXCEPT !.pc = "raised"]
    /\ StoreQuiet

\* adapters = {'jsearch': JSearchAdapter()}: without JSEARCH_API_KEY the
\* constructor raises ValueError
InitAdapters ==
    /\ normalizer.pc = "adapters"
    /\ \/ normalizer' = [normalizer EXCEPT !.pc = "loop"]
       \/ normalizer' = [normalizer EXCEPT !.pc = "raised"]
    /\ StoreQuiet

\* one iteration of `for raw_job in raw_jobs`
NormalizeRecord ==
    /\ normalizer.pc = "loop"
    /\ normalizer.done < Len(normalizer.raw_jobs)
    /\ LET raw_job == normalizer.raw_jobs[normalizer.done + 1]
           res == ProcessRawJob(raw_job)
           stats == normalizer.stats
       IN  normalizer' =
             [normalizer EXCEPT
                !.done = @ + 1,
                !.normalized_jobs =
                    IF res.err = "" THEN Append(@, res.job) ELSE @,
                !.stats =
                    CASE res.err = "" -> [stats EXCEPT !.normalized = @ + 1]
                      [] res.err = "NoAdapter" -> [stats EXCEPT !.skipped = @ + 1]
                      [] res.err = "NormalizationError" ->
                            except_NormalizationError(stats)
                      [] OTHER -> except_Exception(stats)]
    /\ StoreQuiet

\* the loop is over: the batch is written unless dry_run or nothing was
\* normalized
AfterLoop ==
    /\ normalizer.pc = "loop"
    /\ normalizer.done = Len(normalizer.raw_jobs)
    /\ normalizer' =
          IF ~normalizer.dry_run /\ normalizer.normalized_jobs # <<>>
          THEN [normalizer EXCEPT !.pc = "upsert",
                                  !.jobs = normalizer.normalized_jobs]
          ELSE [normalizer EXCEPT !.pc = "returned", !.stats.upserted = 0]
    /\ StoreQuiet

\* db.upsert_staging_jobs_batch(normalized_jobs), one step of it
UpsertNormalized ==
    /\ normalizer.pc = "upsert"
    /\ LET jobs == normalizer.jobs
           sent == Len(log["run1"])
       IN  \/ Connect("run1", "batch")
           \/ /\ sent < Len(jobs)
              /\ Execute("run1", jobs[sent + 1], Len(jobs))
           \/ /\ sent = Len(jobs)
              /\ Leave("run1")
    /\ normalizer' =
          IF ev'.kind # "end" THEN normalizer
          ELSE IF ev'.outcome = "return"
               THEN [normalizer EXCEPT !.pc = "returned",
                                       !.stats.upserted = ev'.value]
               \* DatabaseError
               ELSE [normalizer EXCEPT !.pc = "raised"]
    /\ UNCHANGED <<rankVars, callVars>>

run_normalizer ==
    \/ fetch_raw_jobs
    \/ InitAdapters
    \/ NormalizeRecord
    \/ AfterLoop
    \/ UpsertNormalized

(***************************************************************************)
(* Scoring (ranker/scoring.py).  A subscore is an integer number of        *)
(* thousandths (1000 is 1.0), a weight a number of hundredths, a           *)
(* rank_score a number of hundredths of a point (10000 is 100.0).  A       *)
(* scoring function that can raise returns [err, score].                   *)
(***************************************************************************)
Min(a, b) == IF a < b THEN a ELSE b
Max(a, b) == IF a > b THEN a ELSE b

\* sub in text
Contains(text, sub) ==
    \E k \in 0..(Len(text) - Len(sub)) : SubSeq(text, k + 1, k + Len(sub)) = sub

\* x in list
InList(x, list) == \E k \in 1..Len(list) : list[k] = x

\* [p.lower() for p in list]
LowerAll(list) == [k \in 1..Len(list) |-> Lower(list[k])]

\* sum(1 for x in wanted if x in list)
CountIn(wanted, list) ==
    Cardinality({k \in 1..Len(wanted) : InList(wanted[k], list)})

calculate_title_score(job_title, title_keywords) ==
    IF ~Truthy(job_title) \/ title_keywords = <<>> THEN 0
    ELSE LET job_title_lower == Lower(job_title.s)
             matches ==
                Cardinality({k \in 1..Len(title_keywords) :
                                Contains(job_title_lower, Lower(title_keywords[k]))})
         IN  (1000 * matches) \div Len(title_keywords)

\* a skills score without the check for must-have skills
calculate_skills_score_ungated(job_skills, must_have_skills, nice_to_have_skills) ==
    IF job_skills = <<>> THEN [err |-> "", score |-> 0]
    ELSE IF \E k \in 1..Len(job_skills) : job_skills[k].t # "str"
    THEN [err |-> "AttributeError", score |-> 0]
    ELSE LET job_skills_lower == [k \in 1..Len(job_skills) |-> Lower(job_skills[k].s)]
             nice_to_have_lower == LowerAll(nice_to_have_skills)
             nice_to_have_matches == CountIn(nice_to_have_lower, job_skills_lower)
         IN  IF nice_to_have_lower = <<>>
             THEN [err |-> "", score |-> 800]
             ELSE [err |-> "",
                   score |-> 500 + (500 * nice_to_have_matches) \div Len(nice_to_have_lower)]

\* job_skills is a list of values, each a str or None (a NULL of the array)
calculate_skills_score(job_skills, must_have_skills, nice_to_have_skills) ==
    IF job_skills = <<>> THEN [err |-> "", score |-> 0]
    ELSE IF \E k \in 1..Len(job_skills) : job_skills[k].t # "str"
    \* skill.lower() of None
    THEN [err |-> "AttributeError", score |-> 0]
    ELSE LET job_skills_lower == [k \in 1..Len(job_skills) |-> Lower(job_skills[k].s)]
             must_have_lower == LowerAll(must_have_skills)
             nice_to_have_lower == LowerAll(nice_to_have_skills)
             must_have_matches == CountIn(must_have_lower, job_skills_lower)
             nice_to_have_matches == CountIn(nice_to_have_lower, job_skills_lower)
         IN  IF must_have_matches < Len(must_have_lower)
             THEN [err |-> "", score |-> 100]
             ELSE IF nice_to_have_lower = <<>>
             THEN [err |-> "", score |-> 800]
             ELSE [err |-> "",
                   score |-> 500 + (500 * nice_to_have_matches) \div Len(nice_to_have_lower)]

RECURSIVE BeforeComma(_)
\* text.split(',')[0]
BeforeComma(text) ==
    IF text = "" \/ Head(text) = "," THEN ""
    ELSE Head(text) \o BeforeComma(Tail(text))

calculate_location_score(location, location_home) ==
    IF ~Truthy(location) \/ location_home = "" THEN 0
    ELSE IF Lower(location.s) = Lower(location_home) THEN 1000
    ELSE IF Strip(BeforeComma(Lower(location.s))) = Strip(BeforeComma(Lower(location_home)))
    THEN 700
    ELSE IF Contains(Lower(location.s), "remote") THEN 500
    ELSE 0

\* salaries are whole numbers; the average is kept doubled, the penalty is
\* cut to the thousandth
calculate_salary_score(salary_min, salary_max, salary_target_min, salary_target_max) ==
    IF ~Truthy(salary_min) /\ ~Truthy(salary_max) THEN [err |-> "", score |-> 500]
    ELSE LET salary_avg2 ==
                IF Truthy(salary_min) /\ Truthy(salary_max)
                THEN salary_min.n + salary_max.n
                ELSE IF Truthy(salary_min) THEN 2 * salary_min.n
                ELSE 2 * salary_max.n
             range_size2 == 2 * (salary_target_max - salary_target_min)
             distance2 ==
                IF salary_avg2 < 2 * salary_target_min
                THEN 2 * salary_target_min - salary_avg2
                ELSE salary_avg2 - 2 * salary_target_max
         IN  IF 2 * salary_target_min <= salary_avg2 /\ salary_avg2 <= 2 * salary_target_max
             THEN [err |-> "", score |-> 1000]
             ELSE IF range_size2 = 0
             \* distance / range_size
             THEN [err |-> "ZeroDivisionError", score |-> 0]
             ELSE LET ratio ==
                        \* distance / range_size is negative when the target's
                        \* max is below its min
                        IF range_size2 > 0
                        THEN (1000 * distance2) \div range_size2
                        ELSE 0 - ((1000 * distance2) \div (0 - range_size2))
                      penalty == Min(ratio, 1000)
                  IN  [err |-> "", score |-> Max(100, 1000 - penalty)]

calculate_remote_score(remote_type, preferred_remote) ==
    IF ~Truthy(remote_type) \/ remote_type = Str("unknown") THEN 500
    ELSE IF InList(Lower(remote_type.s), LowerAll(preferred_remote)) THEN 1000
    ELSE 0

calculate_contract_score(contract_type, preferred_contracts) ==
    IF ~Truthy(contract_type) \/ contract_type = Str("unknown") THEN 500
    ELSE IF InList(Lower(contract_type.s), LowerAll(preferred_contracts)) THEN 1000
    ELSE 300

calculate_seniority_score(seniority_level, seniority_preferences) ==
    LET level == Lower(IF Truthy(seniority_level) THEN seniority_level.s ELSE "unknown")
    IN  IF level = "unknown" THEN 500
        ELSE IF InList(level, LowerAll(seniority_preferences)) THEN 1000
        ELSE 300

calculate_company_size_score(company_size, preferred_sizes) ==
    IF ~Truthy(company_size) \/ company_size = Str("unknown") THEN 500
    ELSE IF InList(company_size.s, preferred_sizes) THEN 1000
    ELSE 700

\* round(x, 2) of x = units / 1000, in hundredths: to the nearest, a tie to
\* the even one
Round2(units) ==
    LET q == units \div 10
        r == units % 10
    IN  IF r > 5 \/ (r = 5 /\ q % 2 = 1) THEN q + 1 ELSE q

\* a rank_score left as rounded, outside 0..100
rounded_only(weighted_score) == Round2(weighted_score)

\* max(0.0, min(100.0, round(rank_score, 2)))
round_and_clamp(weighted_score) == Max(0, Min(10000, Round2(weighted_score)))

\* job.get(key, default) of a fetched row
JobGet(job, key, default) == IF key \in DOMAIN job THEN job[key] ELSE default

\* scoring.calculate_rank: [err, rank_score, rank_explain]
calculate_rank(job, config) ==
    LET profile == config.profile
        weights == config.weights
        title_score ==
            calculate_title_score(JobGet(job, "job_title_std", Str("")),
                                  profile.title_keywords)
        skills == IF JobGet(job, "skills", None).t = "list" THEN job.skills.items ELSE <<>>
        skills_res ==
            calculate_skills_score(skills, profile.must_have_skills,
                                   profile.nice_to_have_skills)
        location_score ==
            calculate_location_score(JobGet(job, "location_std", Str("")),
                                     profile.location_home)
        salary_res ==
            calculate_salary_score(JobGet(job, "salary_min_norm", None),
                                   JobGet(job, "salary_max_norm", None),
                                   profile.salary_target_cad.min,
                                   profile.salary_target_cad.max)
        remote_score ==
            calculate_remote_score(JobGet(job, "remote_type", Str("unknown")),
                                   profile.preferred_remote)
        contract_score ==
            calculate_contract_score(JobGet(job, "contract_type", Str("unknown")),
                                     profile.preferred_contracts)
        seniority_score ==
            calculate_seniority_score(JobGet(job, "seniority_level", None),
                                      profile.seniority)
        company_size_score ==
            calculate_company_size_score(JobGet(job, "company_size", Str("unknown")),
                                         profile.preferred_company_sizes)
        weighted_score ==
            weights.title_keywords * title_score +
            weights.skills_overlap * skills_res.score +
            weights.location_proximity * location_score +
            weights.salary_band * salary_res.score +
            weights.employment_type * contract_score +
            weights.seniority_match * seniority_score +
            weights.remote_type * remote_score +
            weights.company_size * company_size_score
        rank_score == round_and_clamp(weighted_score)
    IN  IF skills_res.err # "" THEN [err |-> skills_res.err]
        ELSE IF salary_res.err # "" THEN [err |-> salary_res.err]
        ELSE [err |-> "",
              rank_score |-> rank_score,
              rank_explain |->
                [title_keywords |-> title_score,
                 skills_overlap |-> skills_res.score,
                 location_proximity |-> location_score,
                 salary_band |-> salary_res.score,
                 employment_type |-> contract_score,
                 seniority_match |-> seniority_score,
                 remote_type |-> remote_score,
                 company_size |-> company_size_score]]

(***************************************************************************)
(* Ranking configurations (ranker/config_loader.py) and the rows of        *)
(* marts.fact_jobs offered to the ranker.  Salaries are in thousands.      *)
(***************************************************************************)
\* the default weights of RankingConfig.from_dict, in hundredths
DefaultWeights ==
    [title_keywords |-> 25, skills_overlap |-> 30, location_proximity |-> 10,
     salary_band |-> 15, employment_type |-> 5, seniority_match |-> 7,
     remote_type |-> 4, company_size |-> 4]

HomeProfile ==
    [title_keywords |-> <<"data", "eng">>, must_have_skills |-> <<"sql">>,
     nice_to_have_skills |-> <<"dbt", "py">>, location_home |-> "Mtl, QC",
     salary_target_cad |-> [min |-> 70, max |-> 120],
     preferred_remote |-> <<"remote", "hybrid">>,
     preferred_contracts |-> <<"full_time">>, seniority |-> <<"senior">>,
     preferred_company_sizes |-> <<"51-200">>]

HomeConfig == [weights |-> DefaultWeights, profile |-> HomeProfile]
\* the same profile after a move
AwayConfig ==
    [weights |-> DefaultWeights,
     profile |-> [HomeProfile EXCEPT !.location_home = "Tor, ON"]]
\* a salary target whose two ends are equal
PointConfig ==
    [weights |-> DefaultWeights,
     profile |-> [HomeProfile EXCEPT !.salary_target_cad = [min |-> 100, max |-> 100]]]

Configs == {HomeConfig, AwayConfig, PointConfig}

SkillList(items) == [t |-> "list", items |-> items]

\* a row of marts.fact_jobs joined with its company's size, not yet scored
FactRow(hash_key, title, location, skills, ingested_at) ==
    [hash_key |-> hash_key, job_title_std |-> Str(title),
     location_std |-> Str(location), remote_type |-> Str("hybrid"),
     contract_type |-> Str("full_time"), salary_min_norm |-> Num(80),
     salary_max_norm |-> Num(100), skills |-> skills,
     company_size |-> Str("51-200"), seniority_level |-> Str("senior"),
     ingested_at |-> ingested_at, rank_score |-> None, rank_explain |-> None]

DataEngineer ==
    FactRow("h1", "Data Eng", "Mtl, QC", SkillList(<<Str("SQL"), Str("py")>>), 3)
Analyst ==
    [FactRow("h2", "Analyst", "Tor, ON", None, 2) EXCEPT
        !.remote_type = None, !.contract_type = Str("contract"),
        !.salary_min_norm = Num(100), !.salary_max_norm = None,
        !.company_size = None, !.seniority_level = None]
\* the skills array holds a NULL
NullSkill ==
    FactRow("h3", "Data Eng", "Mtl, QC", SkillList(<<Str("sql"), None>>), 1)

FactPool == {DataEngineer, Analyst, NullSkill}

(***************************************************************************)
(* RankerDB (ranker/db_operations.py) and run_ranker (ranker/main.py).     *)
(***************************************************************************)
\* the columns fetch_unranked_jobs selects
FetchedColumns ==
    {"hash_key", "job_title_std", "location_std", "remote_type",
     "contract_type", "salary_min_norm", "salary_max_norm", "skills",
     "company_size"}

RECURSIVE NewestFirst(_)
\* ORDER BY f.ingested_at DESC
NewestFirst(rows) ==
    IF rows = {} THEN <<>>
    ELSE LET newest == CHOOSE x \in rows : \A y \in rows : y.ingested_at <= x.ingested_at
         IN  <<newest>> \o NewestFirst(rows \ {newest})

\* RankerDB.fetch_unranked_jobs(limit, where_rank_score_is_null)
fetch_unranked_jobs(rows, limit, where_rank_score_is_null) ==
    LET selected ==
            IF where_rank_score_is_null
            THEN {x \in rows : x.rank_score = None} ELSE rows
        ordered == NewestFirst(selected)
        limited ==
            IF limit # 0 THEN SubSeq(ordered, 1, Min(limit, Len(ordered)))
            ELSE ordered
    IN  [k \in 1..Len(limited) |-> [c \in FetchedColumns |-> limited[k][c]]]

\* an UPDATE that writes NULL for a score of zero
SetRankingNullIfZero(row, ranking) ==
    [row EXCEPT !.rank_score =
                    IF ranking.rank_score = 0 THEN None ELSE Num(ranking.rank_score),
                !.rank_explain = ranking.rank_explain]

\* an UPDATE that adds the new score to the stored one
SetRankingAddsScore(row, ranking) ==
    [row EXCEPT !.rank_score =
                    IF row.rank_score = None THEN Num(ranking.rank_score)
                    ELSE Num(row.rank_score.n + ranking.rank_score),
                !.rank_explain = ranking.rank_explain]

\* UPDATE marts.fact_jobs SET rank_score = %s, rank_explain = %s
SetRanking(row, ranking) ==
    [row EXCEPT !.rank_score = Num(ranking.rank_score),
                !.rank_explain = ranking.rank_explain]

\* a statement that also stores a row for a hash_key no row has
UpdateStatementInserts(rows, ranking) ==
    {IF x.hash_key = ranking.hash_key THEN SetRanking(x, ranking) ELSE x : x \in rows}
        \cup {SetRanking([x EXCEPT !.hash_key = ranking.hash_key], ranking) :
                    x \in {y \in rows : \A z \in rows : z.hash_key # ranking.hash_key}}

\* ... WHERE hash_key = %s: the rows after the statement
UpdateStatement(rows, ranking) ==
    {IF x.hash_key = ranking.hash_key THEN SetRanking(x, ranking) ELSE x : x \in rows}

\* cur.rowcount of the statement
rowcount(rows, ranking) == Cardinality({x \in rows : x.hash_key = ranking.hash_key})

UpdaterIdle ==
    [pc |-> "idle", caller |-> "", rankings |-> <<>>, sent |-> 0,
     success_count |-> 0, failed_count |-> 0, txn |-> "ok", rows |-> {}]

RankQuiet == [kind |-> "none"]

\* the store and the normalizer while the ranker works
Outside == UNCHANGED <<storeVars, normVars, callVars>>

\* update_jobs_ranking_batch(rankings) is entered by caller: an empty list
\* returns 0, otherwise psycopg2.connect in _get_connection
UpdateCalled(caller, rankings) ==
    [UpdaterIdle EXCEPT !.pc = IF rankings = <<>> THEN "returned" ELSE "connect",
                        !.caller = caller, !.rankings = rankings]

\* rankings another caller passes to update_jobs_ranking_batch
NoExplain ==
    [title_keywords |-> 0, skills_overlap |-> 0, location_proximity |-> 0,
     salary_band |-> 0, employment_type |-> 0, seniority_match |-> 0,
     remote_type |-> 0, company_size |-> 0]

DirectPool ==
    {[hash_key |-> "h1", rank_score |-> 0, rank_explain |-> NoExplain],
     \* no row has this hash_key
     [hash_key |-> "h9", rank_score |-> 100, rank_explain |-> NoExplain]}

DirectRankings == SeqsUpTo(DirectPool, MaxDirect)

NoRankStats == [fetched |-> 0, ranked |-> 0, failed |-> 0]

RankerIdle ==
    [pc |-> "idle", config |-> HomeConfig, jobs |-> <<>>, done |-> 0,
     rankings |-> <<>>, stats |-> NoRankStats, dry_run |-> FALSE,
     update_calls |-> 0]

RankInit ==
    /\ fact = FactPool
    /\ updater = UpdaterIdle
    /\ ranker = RankerIdle
    /\ rank_ev = RankQuiet

\* run_ranker is called: db.fetch_unranked_jobs
RankFetch ==
    /\ ranker.pc \in {"idle", "returned", "raised"}
    /\ updater.pc = "idle"
    /\ \/ \E config \in Configs, limit \in 0..MaxLimit,
             re_rank_all \in BOOLEAN, dry_run \in BOOLEAN :
             LET jobs == fetch_unranked_jobs(fact, limit, ~re_rank_all)
             IN  ranker' =
                   [RankerIdle EXCEPT
                      !.pc = IF jobs = <<>> THEN "returned" ELSE "loop",
                      !.config = config, !.jobs = jobs, !.dry_run = dry_run,
                      !.stats.fetched = Len(jobs)]
       \/ \* DatabaseError
          ranker' = [RankerIdle EXCEPT !.pc = "raised"]
    /\ rank_ev' = RankQuiet
    /\ UNCHANGED <<fact, updater>>
    /\ Outside

\* a loop whose handler does not count the failure
rank_except_Exception_uncounted(stats) == stats

\* except Exception: stats['failed'] += 1
rank_except_Exception(stats) == [stats EXCEPT !.failed = @ + 1]

\* one iteration of `for i, job in enumerate(jobs, 1)`
RankRecord ==
    /\ ranker.pc = "loop"
    /\ ranker.done < Len(ranker.jobs)
    /\ LET job == ranker.jobs[ranker.done + 1]
           res == calculate_rank(job, ranker.config)
           stats == ranker.stats
       IN  ranker' =
             [ranker EXCEPT
                !.done = @ + 1,
                !.rankings =
                    IF res.err = ""
                    THEN Append(@, [hash_key |-> job.hash_key,
                                    rank_score |-> res.rank_score,
                                    rank_explain |-> res.rank_explain])
                    ELSE @,
                !.stats =
                    IF res.err = "" THEN [stats EXCEPT !.ranked = @ + 1]
                    ELSE rank_except_Exception(stats)]
    /\ rank_ev' = RankQuiet
    /\ UNCHANGED <<fact, updater>>
    /\ Outside

\* the loop is over: if rankings and not dry_run,
\* db.update_jobs_ranking_batch(rankings)
RankAfterLoop ==
    /\ ranker.pc = "loop"
    /\ ranker.done = Len(ranker.jobs)
    /\ IF ranker.rankings # <<>> /\ ~ranker.dry_run
       THEN /\ ranker' = [ranker EXCEPT !.pc = "update", !.update_calls = @ + 1]
            /\ updater' = UpdateCalled("run_ranker", ranker.rankings)
       ELSE /\ ranker' = [ranker EXCEPT !.pc = "returned"]
            /\ UNCHANGED updater
    /\ rank_ev' = RankQuiet
    /\ UNCHANGED fact
    /\ Outside

run_ranker ==
    \/ RankFetch
    \/ RankRecord
    \/ RankAfterLoop

\* update_jobs_ranking_batch called by the DAG task or the backfill script
DirectUpdate ==
    /\ ranker.pc \in {"idle", "returned", "raised"}
    /\ updater.pc = "idle"
    /\ \E rankings \in DirectRankings :
          updater' = UpdateCalled("other", rankings)
    \* the call of run_ranker is over, its locals are gone
    /\ ranker' = RankerIdle
    /\ rank_ev' = RankQuiet
    /\ UNCHANGED fact
    /\ Outside

\* update_jobs_ranking_batch ends: it returns value or raises
\* DatabaseError, and leaves the table as after
UpdateEnds(outcome, value, after) ==
    /\ rank_ev' = [kind |-> "end", caller |-> updater.caller,
                   outcome |-> outcome, value |-> value, before |-> fact,
                   after |-> after, rankings |-> updater.rankings,
                   txn |-> updater.txn]
    /\ fact' = after
    /\ updater' = UpdaterIdle
    /\ ranker' =
          IF updater.caller # "run_ranker" THEN ranker
          ELSE [ranker EXCEPT !.pc = IF outcome = "return" THEN "returned"
                                     ELSE "raised"]
    /\ Outside

\* if not rankings: return 0
UpdateNothing ==
    /\ updater.pc = "returned"
    /\ UpdateEnds("return", 0, fact)

\* psycopg2.connect in _get_connection
UpdateConnect ==
    /\ updater.pc = "connect"
    /\ \/ /\ updater' = [updater EXCEPT !.pc = "open", !.rows = fact]
          /\ rank_ev' = RankQuiet
          /\ UNCHANGED <<fact, ranker>>
          /\ Outside
       \/ UpdateEnds("raise", 0, fact)

\* one iteration of `for ranking in rankings`
UpdateRow ==
    /\ updater.pc = "open"
    /\ updater.sent < Len(updater.rankings)
    /\ LET ranking == updater.rankings[updater.sent + 1]
           counted(ok) ==
              [updater EXCEPT !.sent = @ + 1,
                              !.success_count = IF ok THEN @ + 1 ELSE @,
                              !.failed_count = IF ok THEN @ ELSE @ + 1]
       IN  \/ \* the statement runs
              /\ updater.txn = "ok"
              /\ updater' =
                    [counted(rowcount(updater.rows, ranking) > 0) EXCEPT
                        !.rows = UpdateStatement(updater.rows, ranking)]
           \/ \* the statement raises: the transaction is aborted
              /\ updater.txn = "ok"
              /\ updater' = [counted(FALSE) EXCEPT !.txn = "aborted",
                                !.rows = RolledBack(fact, updater.rows)]
           \/ \* the connection is lost
              /\ updater.txn = "ok"
              /\ updater' = [counted(FALSE) EXCEPT !.txn = "lost",
                                !.rows = RolledBack(fact, updater.rows)]
           \/ \* an earlier statement failed: the transaction accepts nothing
              /\ updater.txn # "ok"
              /\ updater' = counted(FALSE)
    /\ rank_ev' = [kind |-> "row", txn |-> updater'.txn]
    /\ UNCHANGED <<fact, ranker>>
    /\ Outside

\* the with block is left: conn.commit(), and on an exception
\* conn.rollback() and DatabaseError
UpdateLeave ==
    /\ updater.pc = "open"
    /\ updater.sent = Len(updater.rankings)
    /\ \/ \* COMMIT
          /\ updater.txn = "ok"
          /\ UpdateEnds("return", updater.success_count, updater.rows)
       \/ \* COMMIT of an aborted transaction: PostgreSQL rolls it back and
          \* reports no error
          /\ updater.txn = "aborted"
          /\ UpdateEnds("return", updater.success_count, RolledBack(fact, updater.rows))
       \/ \* conn.commit() raises
          /\ updater.txn \in {"ok", "lost"}
          /\ UpdateEnds("raise", 0, RolledBack(fact, updater.rows))

update_jobs_ranking_batch ==
    \/ UpdateNothing
    \/ UpdateConnect
    \/ UpdateRow
    \/ UpdateLeave

(***************************************************************************)
(* Specifications.                                                         *)
(***************************************************************************)
vars == <<storeVars, normVars, rankVars, callVars>>

\* no function is called on its own
NoCall == [fn |-> "", pc |-> "none"]

Services == StoreInit /\ normalizer = NormIdle /\ RankInit

Init == Services /\ call = NoCall

\* the identity store, one run at a time: every call ends before the next
\* begins
SeqNext ==
    \/ upsert_staging_job("run1", JobPool)
    \/ upsert_staging_jobs_batch("run1", JobPool, MaxBatch)

SeqSpec == Init /\ [][SeqNext]_vars

\* the identity store, two runs at once
Next ==
    \/ \E r \in Runs : upsert_staging_job(r, ConcurrentPool)
    \/ \E r \in Runs : upsert_staging_jobs_batch(r, ConcurrentPool, MaxConcurrentBatch)
    \/ \E r \in Runs : Deadlock(r) /\ Elsewhere

Spec == Init /\ [][Next]_vars

\* runs of the normalizer over the identity store
NormNext == run_normalizer

NormSpec == Init /\ [][NormNext]_vars

\* runs of the ranker and other batch updates of the rankings
RankNext ==
    \/ run_ranker
    \/ DirectUpdate
    \/ update_jobs_ranking_batch

RankSpec == Init /\ [][RankNext]_vars

(***************************************************************************)
(* The scoring functions called on their own (ranker/scoring.py): a job    *)
(* and a configuration are drawn, then calculate_rank or                   *)
(* calculate_skills_score is applied to them.                              *)
(***************************************************************************)
\* the skills column of the jobs scored: NULL, an empty array, arrays that
\* hold some of the skills the profiles name, an array with a NULL in it
ScoredSkills ==
    {None, SkillList(<<>>), SkillList(<<Str("SQL")>>), SkillList(<<Str("dbt")>>),
     SkillList(<<Str("sql"), Str("Py")>>),
     SkillList(<<Str("sql"), Str("dbt"), Str("py")>>),
     SkillList(<<Str("sql"), None>>)}

\* salary_min_norm and salary_max_norm of the jobs scored
ScoredSalaries ==
    {<<None, None>>, <<Num(80), Num(100)>>, <<Num(60), None>>, <<None, Num(200)>>}

ScoredJobs ==
    {[FactRow("h1", "Data Eng", "Mtl, QC", skills, 1) EXCEPT
          !.salary_min_norm = salary[1], !.salary_max_norm = salary[2]] :
        skills \in ScoredSkills, salary \in ScoredSalaries}

\* weights that sum to eight, and weights below zero
HeavyWeights == [f \in DOMAIN DefaultWeights |-> 100]
NegativeWeights == [f \in DOMAIN DefaultWeights |-> 0 - 25]

\* salary targets: a range, a point, and a max below the min
SalaryTargets ==
    {[min |-> 70, max |-> 120], [min |-> 100, max |-> 100], [min |-> 120, max |-> 70]}

ScoredConfigs ==
    {[weights |-> weights,
      profile |-> [HomeProfile EXCEPT !.must_have_skills = must_have,
                                      !.nice_to_have_skills = nice_to_have,
                                      !.salary_target_cad = target]] :
        weights \in {DefaultWeights, HeavyWeights, NegativeWeights},
        must_have \in {<<>>, <<"sql">>, <<"SQL", "py">>},
        nice_to_have \in {<<>>, <<"dbt">>, <<"dbt", "Py">>},
        target \in SalaryTargets}

ScoreInit ==
    /\ Services
    /\ call \in {[fn |-> "", pc |-> "called", job |-> job, config |-> config] :
                    job \in ScoredJobs, config \in ScoredConfigs}

\* the list calculate_rank passes as job_skills
SkillsOf(job) ==
    IF JobGet(job, "skills", None).t = "list" THEN job.skills.items ELSE <<>>

\* the rest of the system while a function runs on its own
Apart == UNCHANGED <<storeVars, normVars, rankVars>>

\* calculate_rank(job, config) runs and returns or raises
call_calculate_rank ==
    /\ call.pc = "called"
    /\ call' = [call EXCEPT !.fn = "calculate_rank", !.pc = "returned"]
                  @@ [result |-> calculate_rank(call.job, call.config)]
    /\ Apart

\* calculate_skills_score(job_skills, must_have_skills, nice_to_have_skills)
\* runs and returns or raises
call_calculate_skills_score ==
    /\ call.pc = "called"
    /\ call' = [call EXCEPT !.fn = "calculate_skills_score", !.pc = "returned"]
                  @@ [result |->
                        calculate_skills_score(SkillsOf(call.job),
                            call.config.profile.must_have_skills,
                            call.config.profile.nice_to_have_skills)]
    /\ Apart

ScoreNext ==
    \/ call_calculate_rank
    \/ call_calculate_skills_score

ScoreSpec == ScoreInit /\ [][ScoreNext]_vars

(***************************************************************************)
(* generate_hash_key called on its own (normalizer/hash_generator.py):     *)
(* two triples of organization, title and location are drawn and the key   *)
(* of each is generated.                                                   *)
(***************************************************************************)
\* organizations, titles and locations; some hold the delimiter of the
\* composite key
Organizations == {"Ac  Co", "ac", "ac|de"}
Titles == {"De", "x", "de|x"}
Locations == {"Mtl", "Tor"}

Triples ==
    {<<Str(company), Str(job_title), Str(location)>> :
        company \in Organizations, job_title \in Titles, location \in Locations}

HashInit ==
    /\ Services
    /\ call \in {[fn |-> "", pc |-> "called", args |-> args, other |-> other] :
                    args \in Triples, other \in Triples}

\* generate_hash_key(company, job_title, location) runs on each triple
call_generate_hash_key ==
    /\ call.pc = "called"
    /\ call' = [call EXCEPT !.fn = "generate_hash_key", !.pc = "returned"]
                  @@ [result |->
                        generate_hash_key(call.args[1], call.args[2], call.args[3]),
                      other_result |->
                        generate_hash_key(call.other[1], call.other[2], call.other[3])]
    /\ Apart

HashNext == call_generate_hash_key

HashSpec == HashInit /\ [][HashNext]_vars

(***************************************************************************)
(* The functions of the Normalization Engine called on their own           *)
(* (normalizer/normalize.py): a record is drawn, then generate_hash_key,   *)
(* normalize_job_posting or _normalize_enum is applied to it.              *)
(***************************************************************************)
\* what a record may hold as title, organization or location: nothing, an
\* empty text, whitespace, numbers, a list, a text
FieldValues ==
    {None, Str(""), Str(" \t"), Num(7), Num(0), List("a"), Str("De ")}

\* the valid value in another letter case and with whitespace around it
EnumVariants(v) ==
    {v, Upper(v), UpperChar(Head(v)) \o Tail(v), " " \o v, v \o "\n",
     "\t" \o Upper(v) \o "  "}

\* what a record may hold as an enum field: values that are no text and
\* texts, valid in some spelling or not
EnumValues ==
    {None, Str(""), Num(1), Obj, List("remote"), Str("bogus"), Str("part-time")}
        \cup {Str(text) : text \in UNION {EnumVariants(v) :
                    v \in {"remote", "hybrid", "full_time", "intern", "51-200",
                           "5001+", "unknown"}}}

\* a number the platform cannot turn into an instant, or not a number
Extreme(kind) == [t |-> "num", s |-> kind, n |-> 0]

\* what a record may hold as posted_at: nothing, ISO-8601 texts, other
\* texts, epoch seconds of every magnitude, an instant, other values
TimestampValues ==
    {None, Str("2025-10-15"), Str("2025-10-15Z"), Str("bogus"), Str(""),
     Num(5), Extreme("year_out_of_range"), Extreme("nan"),
     Extreme("value_too_large"), Extreme("time_t_overflow"), Extreme("inf"),
     Ts(3), List("a"), Obj}

\* what a record may hold as salary_min or salary_max
SalaryValues ==
    {None, Num(50), Num(70), Str("50"), Str(" 70 "), Str("abc"), Str("nan"),
     Extreme("nan"), List("a")}

NormalizeInit ==
    /\ Services
    /\ call \in {[fn |-> "", pc |-> "called", args |-> args, other |-> args,
                   value |-> value, posted_at |-> None,
                   salary |-> <<None, None>>] :
                    args \in FieldValues \X FieldValues \X FieldValues,
                    value \in {None, Str("Remote")}}
                \cup
                {[fn |-> "", pc |-> "called",
                  args |-> <<Str("Ac  Co"), Str("De"), Str("Mtl")>>,
                  other |-> <<Str("Ac  Co"), Str("De"), Str("Mtl")>>,
                  value |-> value, posted_at |-> None,
                  salary |-> <<None, None>>] : value \in EnumValues}
                \cup
                {[fn |-> "", pc |-> "called",
                  args |-> <<Str("Ac  Co"), Str("De"), Str("Mtl")>>,
                  other |-> <<Str("Ac  Co"), Str("De"), Str("Mtl")>>,
                  value |-> None, posted_at |-> posted_at,
                  salary |-> salary] :
                    posted_at \in TimestampValues,
                    salary \in SalaryValues \X SalaryValues}

\* the record drawn, in the common format
RecordOf(c) ==
    [Common(c.args[2], c.args[1], c.args[3]) EXCEPT
        !.remote_type = c.value, !.contract_type = c.value,
        !.company_size = c.value, !.posted_at = c.posted_at,
        !.salary_min = c.salary[1], !.salary_max = c.salary[2]]

\* normalize_job_posting(raw_data, source) runs and returns or raises
call_normalize_job_posting ==
    /\ call.pc = "called"
    /\ call' = [call EXCEPT !.fn = "normalize_job_posting", !.pc = "returned"]
                  @@ [result |-> normalize_job_posting(RecordOf(call), "jsearch")]
    /\ Apart

\* _normalize_enum(value, valid_values, 'unknown', field_name) runs for each
\* of the three enum fields
call_normalize_enum ==
    /\ call.pc = "called"
    /\ call' = [call EXCEPT !.fn = "_normalize_enum", !.pc = "returned"]
                  @@ [result |->
                        [remote_type |->
                            _normalize_enum(call.value, VALID_REMOTE_TYPES, "unknown"),
                         contract_type |->
                            _normalize_enum(call.value, VALID_CONTRACT_TYPES, "unknown"),
                         company_size |->
                            _normalize_enum(call.value, VALID_COMPANY_SIZES, "unknown")]]
    /\ Apart

NormalizeNext ==
    \/ call_generate_hash_key
    \/ call_normalize_job_posting
    \/ call_normalize_enum

NormalizeSpec == NormalizeInit /\ [][NormalizeNext]_vars

(***************************************************************************)
(* Seniority Classifier (common/seniority_extractor.py and its copy        *)
(* normalizer/seniority_extractor.py).  Regular expressions are modelled   *)
(* by what re.search does with them on the text.                           *)
(***************************************************************************)
\* s.startswith(sub), s.endswith(sub)
StartsWith(s, sub) == Len(sub) <= Len(s) /\ SubSeq(s, 1, Len(sub)) = sub
EndsWith(s, sub) ==
    Len(sub) <= Len(s) /\ SubSeq(s, Len(s) - Len(sub) + 1, Len(s)) = sub

\* \w: a letter, a digit or the underscore
IsWordChar(c) ==
    \/ IsDigit(c)
    \/ c = "_"
    \/ \E i \in 1..26 : c \in {CharAt(LowerAlpha, i), CharAt(UpperAlpha, i)}

\* \b between the characters k and k + 1 of s (0 and Len(s) are its ends)
Boundary(s, k) ==
    LET word(j) == j \in 1..Len(s) /\ IsWordChar(CharAt(s, j))
    IN  word(k) # word(k + 1)

\* re.search(r"\b<text>\b", s)
re_search(text, s) ==
    \E i \in 1..(Len(s) - Len(text) + 1) :
        /\ SubSeq(s, i, i + Len(text) - 1) = text
        /\ Boundary(s, i - 1)
        /\ Boundary(s, i + Len(text) - 1)

\* the end of the run of digits that starts at the character i of s
RECURSIVE DigitsEnd(_, _)
DigitsEnd(s, i) ==
    IF i <= Len(s) /\ IsDigit(CharAt(s, i)) THEN DigitsEnd(s, i + 1) ELSE i - 1

\* re.search(r"\bL([4-9]|[1-9][0-9]+)\b", s): int(group(1)) of the leftmost
\* match, -1 when there is none.  The digits of a match are a whole run of
\* digits, since \b does not hold between two digits.
level_match(s) ==
    LET matches ==
            {i \in 1..Len(s) :
                /\ CharAt(s, i) = "L"
                /\ Boundary(s, i - 1)
                /\ LET e == DigitsEnd(s, i + 1)
                   IN  /\ e > i
                       /\ Boundary(s, e)
                       /\ CharAt(s, i + 1) # "0"
                       /\ (e = i + 1 => DigitVal(CharAt(s, i + 1)) >= 4)}
    IN  IF matches = {} THEN -1
        ELSE LET i == CHOOSE m \in matches : \A o \in matches : m <= o
             IN  DigitsValue(SubSeq(s, i + 1, DigitsEnd(s, i + 1)))

\* The Roman numeral rules, III before II before I: the level they give,
\* "" when none matches (the same text in both copies)
roman_level(job_title_lower) ==
    IF \/ Contains(job_title_lower, " iii")
       \/ Contains(job_title_lower, "level iii")
       \/ StartsWith(job_title_lower, "iii")
       \/ EndsWith(job_title_lower, " iii")
       \/ Contains(job_title_lower, " iii,")
       \/ Contains(job_title_lower, " iii)")
       \/ Contains(job_title_lower, " iii/")
       \/ Contains(job_title_lower, "engineer iii")
    THEN "senior"
    ELSE IF \/ Contains(job_title_lower, " ii ")
            \/ Contains(job_title_lower, "level ii")
            \/ StartsWith(job_title_lower, "ii ")
            \/ EndsWith(job_title_lower, " ii")
            \/ Contains(job_title_lower, " ii,")
            \/ Contains(job_title_lower, " ii)")
            \/ Contains(job_title_lower, " ii/")
            \/ Contains(job_title_lower, "engineer ii")
    THEN "intermediate"
    ELSE IF \/ Contains(job_title_lower, "level i")
            \/ Contains(job_title_lower, " i ")
            \/ StartsWith(job_title_lower, "i ")
            \/ EndsWith(job_title_lower, " i")
            \/ Contains(job_title_lower, " i,")
            \/ Contains(job_title_lower, " i)")
            \/ Contains(job_title_lower, " i/")
            \/ Contains(job_title_lower, "engineer i ")
            \/ Contains(job_title_lower, "engineer i)")
    THEN "junior"
    ELSE ""

\* the texts between \b and \b of the executive patterns
executive_patterns ==
    {"chief", "vp", "vice president", "head of", "director", "manager",
     "advanced"}

\* keyword tables tested intermediate first
seniority_keywords_intermediate_first ==
    <<[level |-> "intermediate",
       patterns |-> {"intermediate", "mid-level", "mid level", "mid"}],
      [level |-> "senior",
       patterns |-> {"senior", "sr", "sr.", "lead", "principal", "staff",
                     "architect"}],
      [level |-> "junior",
       patterns |-> {"junior", "jr", "jr.", "associate", "entry-level",
                     "entry level", "entry"}]>>

\* The keyword tables in the order the dict is iterated.  \bsr\.?\b is the
\* pair of patterns \bsr\b and \bsr\.\b, and so for jr.
seniority_keywords ==
    <<[level |-> "senior",
       patterns |-> {"senior", "sr", "sr.", "lead", "principal", "staff",
                     "architect"}],
      [level |-> "intermediate",
       patterns |-> {"intermediate", "mid-level", "mid level", "mid"}],
      [level |-> "junior",
       patterns |-> {"junior", "jr", "jr.", "associate", "entry-level",
                     "entry level", "entry"}]>>

\* the tables that have a pattern found in the text
KeywordHits(job_title_lower) ==
    {k \in DOMAIN seniority_keywords :
        \E pattern \in seniority_keywords[k].patterns :
            re_search(pattern, job_title_lower)}

\* common/seniority_extractor.extract_seniority_level
extract_seniority_level(job_title) ==
    IF ~Truthy(job_title) \/ job_title.t # "str" THEN "unknown"
    ELSE LET job_title_lower == Lower(job_title.s)
             roman == roman_level(job_title_lower)
             level_num == level_match(job_title_lower)
             hits == KeywordHits(job_title_lower)
         IN  IF roman # "" THEN roman
             ELSE IF level_num >= 5 THEN "senior"
             ELSE IF level_num = 4 THEN "intermediate"
             ELSE IF \E pattern \in executive_patterns :
                        re_search(pattern, job_title_lower)
                  THEN "senior"
             ELSE IF re_search("intern", job_title_lower) THEN "junior"
             ELSE IF hits # {}
                  THEN seniority_keywords[CHOOSE k \in hits :
                                            \A o \in hits : k <= o].level
             ELSE "unknown"

\* the keyword tables of the normalizer's copy, matched as substrings
normalizer_seniority_keywords ==
    <<[level |-> "senior",
       keywords |-> {"senior", "sr", "lead", "principal", "staff", "architect"}],
      [level |-> "intermediate",
       keywords |-> {"intermediate", "mid-level", "mid level", "mid"}],
      [level |-> "junior",
       keywords |-> {"junior", "jr", "associate", "entry", "entry-level",
                     "entry level"}]>>

\* normalizer/seniority_extractor.extract_seniority_level
normalizer_extract_seniority_level(job_title) ==
    IF ~Truthy(job_title) \/ job_title.t # "str" THEN "unknown"
    ELSE LET job_title_lower == Lower(job_title.s)
             roman == roman_level(job_title_lower)
             level_num == level_match(job_title_lower)
             hits == {k \in DOMAIN normalizer_seniority_keywords :
                        \E keyword \in normalizer_seniority_keywords[k].keywords :
                            Contains(job_title_lower, keyword)}
         IN  IF roman # "" THEN roman
             ELSE IF level_num >= 5 THEN "senior"
             ELSE IF level_num = 4 THEN "intermediate"
             ELSE IF \E keyword \in {"advanced", "director", "manager", "vp",
                                     "vice president", "head of"} :
                        Contains(job_title_lower, keyword)
                  THEN "senior"
             ELSE IF Contains(job_title_lower, "intern") THEN "junior"
             ELSE IF hits # {}
                  THEN normalizer_seniority_keywords[CHOOSE k \in hits :
                                            \A o \in hits : k <= o].level
             ELSE "unknown"

(***************************************************************************)
(* The classifier called on its own: a title of one or two words is        *)
(* drawn, then one of the copies of extract_seniority_level classifies it  *)
(* and the title in which no indicator is part of a longer word.           *)
(***************************************************************************)
\* words that hold an indicator as a part of them
PartialWords == {"Architecture", "International", "Integration", "Leading"}

\* the words of the titles
TitleWords ==
    {"Senior", "Sr.", "Intermediate", "Mid", "Junior", "Intern", "Manager",
     "VP", "Chief", "Architect", "Level", "Engineer", "Data", "I", "II",
     "III", "L4", "L5", "l5", "L10", "L3"} \cup PartialWords

\* ' '.join(words)
RECURSIVE JoinWords(_)
JoinWords(words) ==
    IF words = <<>> THEN ""
    ELSE IF Len(words) = 1 THEN words[1]
    ELSE words[1] \o " " \o JoinWords(Tail(words))

\* the words with every word of PartialWords replaced by a word that holds
\* no indicator
Whole(words) ==
    [k \in DOMAIN words |-> IF words[k] \in PartialWords THEN "Data" ELSE words[k]]

SeniorityInit ==
    /\ Services
    /\ call \in {[fn |-> "", pc |-> "called", words |-> words,
                  job_title |-> Str(JoinWords(words)),
                  other |-> Str(JoinWords(Whole(words)))] :
                    words \in {<<a>> : a \in TitleWords}
                              \cup (TitleWords \X TitleWords)}
                \cup
                {[fn |-> "", pc |-> "called", words |-> <<>>,
                  job_title |-> job_title, other |-> job_title] :
                    job_title \in {None, Str(""), Num(5)}}

\* extract_seniority_level(job_title) of services.common runs
call_extract_seniority_level ==
    /\ call.pc = "called"
    /\ call' = [call EXCEPT !.fn = "extract_seniority_level", !.pc = "returned"]
                  @@ [result |-> extract_seniority_level(call.job_title),
                      other_result |-> extract_seniority_level(call.other)]
    /\ Apart

\* extract_seniority_level(job_title) of services.normalizer runs
call_normalizer_extract_seniority_level ==
    /\ call.pc = "called"
    /\ call' = [call EXCEPT !.fn = "normalizer.extract_seniority_level",
                            !.pc = "returned"]
                  @@ [result |-> normalizer_extract_seniority_level(call.job_title),
                      other_result |->
                            normalizer_extract_seniority_level(call.other)]
    /\ Apart

SeniorityNext ==
    \/ call_extract_seniority_level
    \/ call_normalizer_extract_seniority_level

SenioritySpec == SeniorityInit /\ [][SeniorityNext]_vars

(***************************************************************************)
(* Retry with exponential backoff (source_extractor/retry.py).  call is    *)
(* the frame of one call of the wrapper: attempt is the loop variable,     *)
(* outcomes the outcome of every invocation of the wrapped function so     *)
(* far, slept the delays of the calls of time.sleep so far.  The wrapped   *)
(* function returns or raises as it likes.                                 *)
(***************************************************************************)
\* largest max_retries of a decorator
MaxRetries == 3

\* what the wrapped function may raise
Raised == {"ConnectionError", "TimeoutError", "ValueError"}

\* the exceptions argument: the default, and the one of the unit test
RetryableSets == {{"ConnectionError", "TimeoutError"}, {"ConnectionError"}}

RECURSIVE Pow(_, _)
Pow(b, e) == IF e = 0 THEN 1 ELSE b * Pow(b, e - 1)

\* a loop of one more attempt
range_stop_one_more(max_retries) == max_retries + 2

\* range(max_retries + 1): the attempts are 0 .. range_stop - 1
range_stop(max_retries) == max_retries + 1

RetryInit ==
    /\ Services
    /\ call \in {[fn |-> "wrapper", pc |-> "loop", max_retries |-> n,
                  exceptions |-> exceptions, initial_delay |-> 1,
                  backoff_factor |-> 2, attempt |-> 0, last_exception |-> "",
                  delay |-> 0, outcomes |-> <<>>, slept |-> <<>>,
                  result |-> "", raised |-> ""] :
                    n \in -1..MaxRetries, exceptions \in RetryableSets}

\* the loop has an attempt to make
Attempting ==
    /\ call.pc = "loop"
    /\ call.attempt < range_stop(call.max_retries)

\* return func(*args, **kwargs): the invocation returns a value
func_returns ==
    /\ Attempting
    /\ \E value \in {"success", "7"} :
          call' = [call EXCEPT !.pc = "returned", !.result = value,
                               !.outcomes = Append(@, "return")]
    /\ Apart

\* the invocation raises an exception of the retryable set: it is kept, and
\* a sleep follows unless this was the last attempt
func_raises_retryable ==
    /\ Attempting
    /\ \E e \in Raised \cap call.exceptions :
          call' = IF call.attempt < call.max_retries
                  THEN [call EXCEPT
                            !.last_exception = e,
                            !.outcomes = Append(@, e),
                            !.delay = call.initial_delay
                                        * Pow(call.backoff_factor, call.attempt),
                            !.pc = "sleep"]
                  ELSE [call EXCEPT
                            !.last_exception = e,
                            !.outcomes = Append(@, e),
                            !.attempt = @ + 1]
    /\ Apart

\* the invocation raises another exception, which leaves the wrapper
func_raises_other ==
    /\ Attempting
    /\ \E e \in Raised \ call.exceptions :
          call' = [call EXCEPT !.pc = "raised", !.raised = e,
                               !.outcomes = Append(@, e)]
    /\ Apart

\* time.sleep(delay) returns and the loop goes to the next attempt
sleep ==
    /\ call.pc = "sleep"
    /\ call' = [call EXCEPT !.slept = Append(@, call.delay),
                            !.attempt = @ + 1, !.pc = "loop"]
    /\ Apart

\* raise last_exception after the loop (raise None is a TypeError)
raise_last_exception ==
    /\ call.pc = "loop"
    /\ call.attempt >= range_stop(call.max_retries)
    /\ call' = [call EXCEPT
                    !.pc = "raised",
                    !.raised = IF call.last_exception = "" THEN "TypeError"
                               ELSE call.last_exception]
    /\ Apart

RetryNext ==
    \/ func_returns
    \/ func_raises_retryable
    \/ func_raises_other
    \/ sleep
    \/ raise_last_exception

\* the wrapper runs on: an invocation of the wrapped function ends, a sleep
\* ends
RetrySpec == RetryInit /\ [][RetryNext]_vars /\ WF_vars(RetryNext)

(***************************************************************************)
(* Properties of the identity store.                                       *)
(***************************************************************************)
RECURSIVE Serial(_, _, _)
\* the rows after the statements of jobs are applied to rows one after the
\* other, alone, at transaction time t
Serial(rows, jobs, t) ==
    IF jobs = <<>> THEN rows
    ELSE LET res == UpsertStatement(rows, Head(jobs), t)
         IN  Serial((rows \ res.base) \cup {res.cur}, Tail(jobs), t)

RECURSIVE Select(_, _)
\* the jobs of the statements of a log whose fault is one of faults
Select(statements, faults) ==
    IF statements = <<>> THEN <<>>
    ELSE (IF Head(statements).fault \in faults
          THEN <<Head(statements).job>> ELSE <<>>)
         \o Select(Tail(statements), faults)

\* the statement succeeded
IsOk == {"none"}
\* the statement met no storage error of its own: it succeeded, or it was
\* refused because an earlier statement of the transaction had failed
NotRejected == {"none", "transaction"}

UniqueFingerprints(rows) ==
    \A x \in rows : \A y \in rows : x.hash_key = y.hash_key => x = y

\* the stored row could be what an upsert of job leaves behind
Agrees(row, job) ==
    /\ \A c \in OverwrittenColumns : row[c] = job[c]
    /\ \A c \in CoalescedColumns : job[c] # None => row[c] = job[c]

\* C1: the store holds at most one row per fingerprint, and no call of
\* upsert_staging_job / upsert_staging_jobs_batch removes a stored row
C1_OneRowPerFingerprint ==
    /\ UniqueFingerprints(stg)
    /\ ev.kind = "end" =>
          \A x \in ev.before : \E y \in stg : y.hash_key = x.hash_key

\* a call committed an upsert of a fingerprint that was already stored, and
\* two fingerprints are stored
C1_Witness ==
    /\ ev.kind = "end" /\ ev.outcome = "return"
    /\ Cardinality(stg) = 2
    /\ \E x \in ev.before : \E y \in stg : x.hash_key = y.hash_key /\ x # y

\* C2: upserting an identical record again leaves one row for the
\* fingerprint, first_seen and every other column as they were, and sets
\* last_seen to the time of the second upsert
C2_UpsertIdempotent ==
    (ev.kind = "upsert" /\ \E o \in ev.old : Agrees(o, ev.job)) =>
        /\ \A o \in ev.old : ev.new = [o EXCEPT !.last_seen_at = ev.t]
        /\ Cardinality(ConflictRows(Visible(ev.run), ev.job)) = 1

\* the record a committed row was inserted from is upserted again later
C2_Witness ==
    /\ ev.kind = "upsert"
    /\ \E o \in ev.old :
          /\ o \in stg /\ Agrees(o, ev.job)
          /\ \A c \in DOMAIN ev.job : o[c] = ev.job[c]
          /\ ev.new.first_seen_at = o.first_seen_at
          /\ ev.new.last_seen_at > o.last_seen_at

\* C3: after an upsert on a stored fingerprint, title, organization, location
\* and source are the new observation's; every other column is the new
\* observation's value if that is not null and the stored value otherwise
C3_MergePolicy ==
    (ev.kind = "upsert" /\ ev.old # {}) =>
        \A o \in ev.old : \A c \in DOMAIN ev.job \ {"hash_key"} :
            ev.new[c] = IF c \in {"job_title", "company", "location", "source"}
                        THEN ev.job[c]
                        ELSE IF ev.job[c] # None THEN ev.job[c] ELSE o[c]

\* a null salary_min is upserted over a stored one, which survives, while
\* the organization is replaced
C3_Witness ==
    /\ ev.kind = "upsert"
    /\ \E o \in ev.old :
          /\ o.salary_min # None /\ ev.job.salary_min = None
          /\ ev.new.salary_min = o.salary_min
          /\ o.company # ev.job.company /\ ev.new.company = ev.job.company

\* C4: when the upsert of one row of a batch fails with a storage error, the
\* row is skipped, every other row of the batch is applied and committed,
\* and the count returned is the number of rows applied
C4_BatchRowIsolation ==
    (/\ ev.kind = "end" /\ ev.mode = "batch" /\ ev.outcome = "return"
     /\ \E i \in 1..Len(ev.log) : ev.log[i].fault = "constraint") =>
        /\ stg = Serial(ev.before, Select(ev.log, NotRejected), ev.t)
        /\ ev.value = Len(Select(ev.log, NotRejected))

\* the original and the re-observation differ in the organization only, by
\* case and spacing
ReObserved(first, second) ==
    /\ first.company # second.company
    /\ second = [first EXCEPT !.company = second.company]
    /\ Lower(normalize_whitespace(first.company.s))
          = Lower(normalize_whitespace(second.company.s))

\* the canonical records of an original and of its re-observation
ReObservedJobs ==
    {<<normalize_job_posting(p[1], "jsearch").job,
       normalize_job_posting(p[2], "jsearch").job>> :
        p \in {q \in CommonPool \X CommonPool : ReObserved(q[1], q[2])}}

\* the upsert is of a record whose re-observed original is what is stored
ReObservation ==
    /\ ev.kind = "upsert"
    /\ \E o \in ev.old : \E p \in ReObservedJobs :
          /\ ev.job = p[2]
          /\ \A c \in DOMAIN ev.job : o[c] = p[1][c]

\* C5 as stated: a re-observation in another case or spacing of the
\* organization changes last_seen only
C5_OnlyLastSeenChanges ==
    ReObservation => \A o \in ev.old : ev.new = [o EXCEPT !.last_seen_at = ev.t]

\* C5: a re-observation in another case or spacing of the organization
\* changes last_seen and replaces the stored organization by the new
\* spelling; the fingerprint, first_seen and every other column stay
C5_LastSeenAndOrganizationChange ==
    ReObservation =>
        \A o \in ev.old :
            /\ ev.new = [o EXCEPT !.last_seen_at = ev.t,
                                  !.company = ev.job.company]
            /\ ev.new.company # o.company
            /\ ev.new.hash_key = o.hash_key
            /\ ev.new.first_seen_at = o.first_seen_at

C5_Witness ==
    /\ ReObservation
    /\ ev.old \subseteq stg
    /\ ev.new.last_seen_at > ev.new.first_seen_at

\* C6: when two runs interleave upserts of a fingerprint, each commit leaves
\* the rows the committed statements of the call produce when applied alone,
\* in order, to the rows committed before it (each at its transaction's
\* NOW()), with one row per fingerprint
C6_CommitOrder ==
    (ev.kind = "end" /\ ev.outcome = "return" /\ ev.txn = "ok") =>
        /\ stg = Serial(ev.before, Select(ev.log, IsOk), ev.t)
        /\ UniqueFingerprints(stg)

\* a run commits an upsert of a fingerprint that the other run inserted and
\* committed after this run's transaction had started
C6_Witness ==
    /\ ev.kind = "end" /\ ev.outcome = "return" /\ ev.txn = "ok"
    /\ \E x \in ev.before : \E y \in stg :
          /\ x.hash_key = y.hash_key
          /\ x.first_seen_at > ev.t
          /\ y.last_seen_at = ev.t

\* C7: a call that ends by raising leaves the committed rows as they were,
\* and none of its row versions remains
C7_RaiseIsAtomic ==
    (ev.kind = "end" /\ ev.outcome = "raise") =>
        /\ stg = ev.before
        /\ ws[ev.run] = {}

\* a batch raises after two of its statements were executed
C7_Witness ==
    /\ ev.kind = "end" /\ ev.outcome = "raise" /\ ev.mode = "batch"
    /\ Len(Select(ev.log, IsOk)) = 2
    /\ stg = ev.before

(***************************************************************************)
(* Properties of the ranker.                                               *)
(***************************************************************************)
\* C8: a row of marts.fact_jobs whose rank_score is set is, after any step
\* of a ranker run or of a batch update of the rankings, still a row whose
\* rank_score is set: the status moves from unscored to scored or from
\* scored to scored, never back
C8_NeverUnscoredAgain ==
    [][\A x \in fact : x.rank_score # None =>
            \E y \in fact' : y.hash_key = x.hash_key /\ y.rank_score # None]_vars

\* a batch update has committed a first score for one row and replaced
\* the score of another
C8_Witness ==
    /\ rank_ev.kind = "end" /\ rank_ev.outcome = "return"
    /\ \E x \in rank_ev.before, y \in fact :
          /\ y.hash_key = x.hash_key
          /\ x.rank_score = None /\ y.rank_score # None
    /\ \E x \in rank_ev.before, y \in fact :
          /\ y.hash_key = x.hash_key
          /\ x.rank_score # None /\ y.rank_score \notin {None, x.rank_score}

\* what calculate_rank makes of each row the ranker can fetch, under each
\* configuration
Ranked ==
    [job \in {[c \in FetchedColumns |-> x[c]] : x \in FactPool} |->
        [config \in Configs |-> calculate_rank(job, config)]]

RECURSIVE Scored(_, _)
\* the rankings of the jobs whose scoring does not raise, in their order
Scored(jobs, config) ==
    IF jobs = <<>> THEN <<>>
    ELSE LET job == Head(jobs)
             res == Ranked[job][config]
         IN  (IF res.err # "" THEN <<>>
              ELSE <<[hash_key |-> job.hash_key, rank_score |-> res.rank_score,
                      rank_explain |-> res.rank_explain]>>)
             \o Scored(Tail(jobs), config)

Processed == [raw_job \in RawPool |-> ProcessRawJob(raw_job)]

RECURSIVE Kept(_)
\* the canonical records of the raw jobs that are normalized, in their order
Kept(raw_jobs) ==
    IF raw_jobs = <<>> THEN <<>>
    ELSE (IF Processed[Head(raw_jobs)].err # "" THEN <<>>
          ELSE <<Processed[Head(raw_jobs)].job>>) \o Kept(Tail(raw_jobs))

\* C10: in run_normalizer the raw jobs that raise NormalizationError are
\* counted in failed and the loop goes on; every raw job the loop has been
\* over is counted in exactly one of normalized, failed and skipped; once
\* the loop is over fetched = normalized + failed + skipped; and the batch
\* upsert is passed the normalized records and nothing else
C10_NormalizerSkipAndContinue ==
    LET n == normalizer
        seen == SubSeq(n.raw_jobs, 1, n.done)
        with(errs) == Cardinality({k \in 1..n.done : Processed[seen[k]].err \in errs})
    IN  /\ n.pc \in {"loop", "upsert", "returned"} =>
              /\ n.stats.fetched = Len(n.raw_jobs)
              /\ n.stats.failed = with({"NormalizationError"})
              /\ n.stats.normalized = with({""})
              /\ n.stats.skipped = n.done - with({"", "NormalizationError"})
              /\ n.normalized_jobs = Kept(seen)
        /\ n.pc \in {"upsert", "returned"} =>
              /\ n.done = Len(n.raw_jobs)
              /\ n.stats.fetched =
                    n.stats.normalized + n.stats.failed + n.stats.skipped
        /\ n.pc = "upsert" =>
              /\ n.jobs = Kept(n.raw_jobs)
              /\ \A k \in 1..Len(log["run1"]) : log["run1"][k].job = n.jobs[k]
        /\ n.pc # "upsert" => pc["run1"] = "idle"

\* run_normalizer has returned: the first raw job raised
\* NormalizationError, a later one was skipped and one was normalized and
\* written by the batch upsert
C10_Witness ==
    /\ normalizer.pc = "returned"
    /\ Len(normalizer.raw_jobs) = 3
    /\ Processed[normalizer.raw_jobs[1]].err = "NormalizationError"
    /\ normalizer.stats.failed = 1 /\ normalizer.stats.skipped = 1
    /\ normalizer.stats.normalized = 1 /\ normalizer.stats.upserted = 1
    /\ ev.kind = "end" /\ Len(ev.log) = 1

(***************************************************************************)
(* Properties of the scoring functions.                                    *)
(***************************************************************************)
\* calculate_rank has returned a score and an explanation
RankReturned ==
    /\ call.fn = "calculate_rank"
    /\ call.pc = "returned"
    /\ call.result.err = ""

\* C11: for every profile, whatever its weights, and every record, the score
\* calculate_rank returns lies between 0 and 100
C11_ScoreBounds ==
    RankReturned =>
        /\ call.result.rank_score >= 0
        /\ call.result.rank_score <= 10000

\* weights that sum to eight took the weighted sum above 100, and the score
\* returned is 100
C11_Witness ==
    /\ RankReturned
    /\ call.config.weights = HeavyWeights
    /\ call.result.rank_score = 10000
    /\ call.result.rank_explain.title_keywords = 1000

\* the eight subscores of an explanation
Subscores ==
    {"title_keywords", "skills_overlap", "location_proximity", "salary_band",
     "employment_type", "seniority_match", "remote_type", "company_size"}

\* C12: for every profile and every record, the explanation calculate_rank
\* returns holds each of the eight subscores, each between 0 and 1
C12_SubscoresInUnitInterval ==
    RankReturned =>
        /\ DOMAIN call.result.rank_explain = Subscores
        /\ \A f \in Subscores :
              /\ call.result.rank_explain[f] >= 0
              /\ call.result.rank_explain[f] <= 1000

\* calculate_skills_score has returned a subscore
SkillsReturned ==
    /\ call.fn = "calculate_skills_score"
    /\ call.pc = "returned"
    /\ call.result.err = ""

\* the skill is in the record's skill set, letter case apart
HasSkill(job, skill) ==
    \E k \in 1..Len(SkillsOf(job)) :
        /\ SkillsOf(job)[k].t = "str"
        /\ Lower(SkillsOf(job)[k].s) = Lower(skill)

\* the configured skills of the list that the record has
Present(job, skills) == {k \in 1..Len(skills) : HasSkill(job, skills[k])}

\* a configured must-have skill is absent from the record's skill set
MustHaveAbsent ==
    Present(call.job, call.config.profile.must_have_skills)
        # DOMAIN call.config.profile.must_have_skills

\* C13: when a configured must-have skill is absent from the record's skill
\* set, the skills subscore is at most 0.15, whatever the nice-to-have
\* overlap
C13_MustHaveGate ==
    (SkillsReturned /\ MustHaveAbsent) => call.result.score <= 150

\* a record that lacks a must-have skill and has a nice-to-have one
C13_Witness ==
    /\ SkillsReturned
    /\ MustHaveAbsent
    /\ Present(call.job, call.config.profile.nice_to_have_skills) # {}
    /\ call.result.score = 100

\* C14: when a configured must-have skill is absent from the record's skill
\* set, also when the record has no skills at all, the skills subscore is
\* the floor 0.1, never zero
C14_MustHaveFloor ==
    (SkillsReturned /\ MustHaveAbsent) => call.result.score = 100

\* C15: when every configured must-have skill is in the record's skill set,
\* the skills subscore is 0.8 plus 0.2 times the fraction of the configured
\* nice-to-have skills present, hence at least 0.8
C15_BasePlusBonus ==
    (SkillsReturned /\ ~MustHaveAbsent) =>
        LET nice_to_have == call.config.profile.nice_to_have_skills
            bonus ==
                IF nice_to_have = <<>> THEN 0
                ELSE (200 * Cardinality(Present(call.job, nice_to_have)))
                        \div Len(nice_to_have)
        IN  /\ call.result.score = 800 + bonus
            /\ call.result.score >= 800

(***************************************************************************)
(* Re-ranking.                                                             *)
(***************************************************************************)
\* the rows are as a run of the ranker with the configuration over all of
\* them leaves them: each row whose scoring does not raise holds the score
\* and the explanation calculate_rank gives it
RankedBy(rows, config) ==
    \A x \in rows :
        LET res == Ranked[[c \in FetchedColumns |-> x[c]]][config]
        IN  res.err = "" =>
                /\ x.rank_score = Num(res.rank_score)
                /\ x.rank_explain = res.rank_explain

\* run_ranker's call of update_jobs_ranking_batch has ended
RankerRunEnded ==
    /\ rank_ev.kind = "end"
    /\ rank_ev.caller = "run_ranker"

\* C16: a run of the ranker over records that an earlier run with the same
\* profile has scored, the records unchanged since, leaves every record with
\* the score and the explanation it had
C16_RerankIdempotent ==
    (RankerRunEnded /\ RankedBy(rank_ev.before, ranker.config)) =>
        rank_ev.after = rank_ev.before

\* a second run over all the records has written the scores again and
\* committed
C16_Witness ==
    /\ RankerRunEnded
    /\ rank_ev.outcome = "return"
    /\ rank_ev.value = 2
    /\ RankedBy(rank_ev.before, ranker.config)
    /\ Len(ranker.jobs) = Cardinality(fact)
    /\ \E x \in rank_ev.before : x.rank_score # None
    /\ fact = rank_ev.after

(***************************************************************************)
(* Properties of the fingerprint.                                          *)
(***************************************************************************)
RECURSIVE Respace(_, _)
\* the text with every whitespace character replaced by the whitespace w
Respace(s, w) ==
    IF s = "" THEN ""
    ELSE (IF IsSpace(Head(s)) THEN w ELSE Head(s)) \o Respace(Tail(s), w)

\* the text in another letter case, with whitespace around it, with its
\* internal whitespace of another amount or kind
Variants(s) ==
    {s, Upper(s), Lower(s), "  " \o s, s \o "\t", "\n" \o s \o " ",
     Respace(s, "\t"), Respace(s, " \n "), Respace(Upper(s), "   ")}

\* generate_hash_key has returned the key of each triple
HashReturned ==
    /\ call.fn = "generate_hash_key"
    /\ call.pc = "returned"

\* C17: generate_hash_key returns the same key for the variants of the
\* three values that differ in letter case, in leading and trailing
\* whitespace or in the amount and kind of internal whitespace
C17_FingerprintInvariance ==
    HashReturned =>
        \A company \in Variants(call.args[1].s),
           job_title \in Variants(call.args[2].s),
           location \in Variants(call.args[3].s) :
            generate_hash_key(Str(company), Str(job_title), Str(location))
                = call.result

\* a key was returned for an organization that has variants in case and in
\* internal whitespace
C17_Witness ==
    /\ HashReturned
    /\ call.result \notin {"ValueError", "AttributeError"}
    /\ call.args[1].s = "Ac  Co"
    /\ Cardinality(Variants(call.args[1].s)) > 4

\* the trimmed, whitespace-collapsed, lower-cased values of a triple
Normalized(args) ==
    [k \in 1..3 |-> Lower(normalize_whitespace(args[k].s))]

\* C18: generate_hash_key returns different keys for two triples whose
\* normalized organization, title or location differ (the digest taken as
\* collision free)
C18_FingerprintSensitivity ==
    (HashReturned /\ Normalized(call.args) # Normalized(call.other)) =>
        call.result # call.other_result

(***************************************************************************)
(* Properties of the Normalization Engine.                                 *)
(***************************************************************************)
\* the value is missing, not a string, empty, or only whitespace
Unusable(v) ==
    \/ v.t # "str"
    \/ \A i \in 1..Len(v.s) : IsSpace(CharAt(v.s, i))

\* the title, the organization or the location of the record is unusable
RecordUnusable == \E k \in 1..3 : Unusable(call.args[k])

NormalizeReturned ==
    /\ call.fn = "normalize_job_posting"
    /\ call.pc = "returned"

\* normalize_job_posting raises NormalizationError on an unusable record
\* and lets no other exception out
NormalizeRejects ==
    NormalizeReturned =>
        /\ call.result.err \in {"", "NormalizationError"}
        /\ RecordUnusable =>
              (call.result.err = "NormalizationError" /\ call.result.job = <<>>)
        /\ call.result.err = "" => call.result.job # <<>>

\* C19 as stated: on a record whose title, organization or location is
\* missing, not a string, empty or empty after whitespace normalization,
\* generate_hash_key raises an input error (ValueError) and
\* normalize_job_posting raises NormalizationError and nothing else
C19_RejectedWithInputError ==
    /\ (HashReturned /\ RecordUnusable) => call.result = "ValueError"
    /\ NormalizeRejects

\* C19: on such a record normalize_job_posting raises NormalizationError
\* and nothing else, and returns no canonical record; generate_hash_key
\* raises ValueError when every value is a string or falsy, and
\* AttributeError when a value is neither
C19_Rejected ==
    /\ (HashReturned /\ RecordUnusable) =>
            call.result =
                IF \E k \in 1..3 : call.args[k].t # "str" /\ Truthy(call.args[k])
                THEN "AttributeError" ELSE "ValueError"
    /\ NormalizeRejects

\* a record of three texts, one of them whitespace, was rejected
C19_Witness ==
    /\ NormalizeReturned
    /\ \A k \in 1..3 : call.args[k].t = "str" /\ Truthy(call.args[k])
    /\ call.args[2] = Str(" \t")
    /\ call.result.err = "NormalizationError"

EnumReturned ==
    /\ call.fn = "_normalize_enum"
    /\ call.pc = "returned"

\* the closed set of each enum field
EnumFields ==
    [remote_type |-> VALID_REMOTE_TYPES, contract_type |-> VALID_CONTRACT_TYPES,
     company_size |-> VALID_COMPANY_SIZES]

\* C20: for an input of any type the normalization of remote mode,
\* employment mode and organization size outputs a member of the field's
\* closed set: the lower-case canonical form when the input is a case or
\* whitespace variant of a valid value, unknown otherwise
C20_ClosedEnumDomains ==
    EnumReturned =>
        \A f \in DOMAIN EnumFields :
            LET out == call.result[f]
                valid == {v \in EnumFields[f] :
                            call.value.t = "str" /\ call.value.s \in EnumVariants(v)}
            IN  /\ out \in EnumFields[f]
                /\ IF valid # {} THEN valid = {out} ELSE out = "unknown"

\* a valid remote mode in upper case between whitespace gave its canonical
\* form, and unknown as an employment mode
C20_Witness ==
    /\ EnumReturned
    /\ call.value = Str("\tHYBRID  ")
    /\ call.result.remote_type = "hybrid"
    /\ call.result.contract_type = "unknown"

(***************************************************************************)
(* Properties of timestamp and compensation normalization.                 *)
(***************************************************************************)
\* C21: for every posted_at input (ISO-8601 text, epoch seconds of any
\* magnitude, an instant, any other value) normalize_job_posting returns a
\* canonical record whose posted_at is a parsed instant or null; an
\* unparseable value never causes an exception
C21_TimestampNeverFails ==
    (NormalizeReturned /\ ~RecordUnusable) =>
        /\ call.result.err = ""
        /\ call.result.job # <<>>
        /\ call.result.job.posted_at.t \in {"ts", "none"}

\* the comparison salary_min <= salary_max on floats (false with a NaN)
FloatLe(a, b) == a.s # "nan" /\ b.s # "nan" /\ a.n <= b.n

SeniorityReturned ==
    /\ call.fn \in {"extract_seniority_level", "normalizer.extract_seniority_level"}
    /\ call.pc = "returned"

\* the shared copy classified a title that is a text
CommonReturned ==
    /\ call.fn = "extract_seniority_level"
    /\ call.pc = "returned"
    /\ call.job_title.t = "str"

\* the levels whose keyword table has a pattern in the lowered title
KeywordLevels ==
    {seniority_keywords[k].level : k \in KeywordHits(Lower(call.job_title.s))}

\* C23: extract_seniority_level evaluates its rules in a fixed order and
\* the first matching rule decides: Roman numeral level, then level code,
\* then leadership keywords, then intern, then the keyword tables senior
\* before intermediate before junior, else unknown
C23_CascadeOrder ==
    CommonReturned =>
        LET lower == Lower(call.job_title.s)
            roman == roman_level(lower)
            code == level_match(lower)
            leader == \E pattern \in executive_patterns : re_search(pattern, lower)
            intern == re_search("intern", lower)
        IN  call.result =
                CASE roman # "" -> roman
                  [] roman = "" /\ code >= 5 -> "senior"
                  [] roman = "" /\ code = 4 -> "intermediate"
                  [] roman = "" /\ code < 4 /\ leader -> "senior"
                  [] roman = "" /\ code < 4 /\ ~leader /\ intern -> "junior"
                  [] OTHER ->
                        IF "senior" \in KeywordLevels THEN "senior"
                        ELSE IF "intermediate" \in KeywordLevels THEN "intermediate"
                        ELSE IF "junior" \in KeywordLevels THEN "junior"
                        ELSE "unknown"

\* a title with a senior and an intermediate keyword and no earlier rule
\* was classified senior
C23_Witness ==
    /\ CommonReturned
    /\ call.job_title = Str("Intermediate Senior")
    /\ roman_level(Lower(call.job_title.s)) = ""
    /\ {"senior", "intermediate"} \subseteq KeywordLevels
    /\ call.result = "senior"

\* the level codes L<n>, n >= 4, that are words of the title
LevelCodes ==
    {n \in {4, 5, 10} :
        \E k \in DOMAIN call.words : Upper(call.words[k]) = "L" \o NatToStr(n)}

\* C24: for a title that matches no Roman numeral rule and contains a level
\* code L<n> as a separate word, extract_seniority_level returns
\* intermediate when n = 4 and senior when n >= 5
C24_LevelCodes ==
    (/\ SeniorityReturned
     /\ call.job_title.t = "str"
     /\ roman_level(Lower(call.job_title.s)) = ""
     /\ LevelCodes # {}) =>
        /\ LevelCodes = {4} => call.result = "intermediate"
        /\ (\A n \in LevelCodes : n >= 5) => call.result = "senior"

\* C25: in every copy of extract_seniority_level an indicator that occurs
\* only as part of a longer word never determines the result: the title is
\* classified as the title without that word is
C25_WordBoundaries ==
    SeniorityReturned => call.result = call.other_result

(***************************************************************************)
(* Properties of the retry wrapper.                                        *)
(***************************************************************************)
\* the outcomes of the invocations that failed with a retryable exception
Failures == {k \in DOMAIN call.outcomes : call.outcomes[k] \in call.exceptions}

RetryProtocol ==
    LET n == call.max_retries
        made == Len(call.outcomes)
    IN  \* at most n + 1 invocations
        /\ made <= Max(n + 1, 0)
        \* every invocation but the last failed with a retryable exception
        /\ \A k \in 1..(made - 1) : k \in Failures
        \* the value of the invocation that returned is returned
        /\ (made > 0 /\ call.outcomes[made] = "return") =>
                (call.pc = "returned" /\ call.result \in {"success", "7"})
        /\ call.pc = "returned" => (made > 0 /\ call.outcomes[made] = "return")
        \* another exception leaves the wrapper after that invocation
        /\ (made > 0 /\ call.outcomes[made] \in Raised \ call.exceptions) =>
                (call.pc = "raised" /\ call.raised = call.outcomes[made])
        \* after n + 1 retryable failures the last exception is raised, and
        \* there was a sleep after every failed attempt but the last
        /\ (n >= 0 /\ Cardinality(Failures) = n + 1) =>
                /\ call.pc \in {"loop", "raised"}
                /\ call.pc = "raised" => call.raised = call.outcomes[n + 1]
                /\ Len(call.slept) = n
        /\ Len(call.slept) <= Cardinality(Failures)
        /\ \A k \in DOMAIN call.slept :
                call.slept[k] = call.initial_delay * Pow(call.backoff_factor, k - 1)

\* C26: a function wrapped by retry_with_backoff(max_retries=n) is invoked
\* at most n + 1 times, never again after an invocation returned (that
\* value is returned) or raised an exception that is not retryable (it
\* propagates); after n + 1 consecutive retryable failures the wrapper
\* ends by raising the last exception, without a sleep after the final
\* attempt
C26_RetryProtocol ==
    /\ []RetryProtocol
    /\ <>(call.pc \in {"returned", "raised"})

\* every attempt of max_retries = 2 failed and the last exception was raised
\* after two sleeps
C26_Witness ==
    /\ call.fn = "wrapper"
    /\ call.max_retries = 2
    /\ call.outcomes = <<"TimeoutError", "ConnectionError", "TimeoutError">>
    /\ call.pc = "raised"
    /\ call.raised = "TimeoutError"
    /\ call.slept = <<1, 2>>

(***************************************************************************)
(* Properties of the stored rows.                                          *)
(***************************************************************************)
\* C27: in every reachable state of the identity store, the states reached
\* by interleaved upserts of runs whose transactions started at different
\* times included, every row has first_seen <= last_seen
C27_FirstSeenNotAfterLastSeen ==
    \A x \in stg : x.first_seen_at <= x.last_seen_at

\* the enum columns of a row
EnumColumns == {"remote_type", "contract_type", "company_size"}

\* C28: the enum fields of a record normalize_job_posting produced are never
\* null, so after an upsert on a stored fingerprint the stored remote_type,
\* contract_type and company_size are the latest observation's normalized
\* values: unknown replaces a stored known value, and the stored value is
\* never kept
C28_EnumsFollowLatest ==
    (ev.kind = "upsert" /\ ev.old # {}) =>
        \A c \in EnumColumns :
            /\ ev.job[c].t = "str"
            /\ ev.new[c] = ev.job[c]

\* a later observation whose remote mode normalized to unknown replaced a
\* stored hybrid
C28_Witness ==
    /\ ev.kind = "upsert"
    /\ \E o \in ev.old :
          /\ o \in stg
          /\ o.remote_type = Str("hybrid")
          /\ ev.job.remote_type = Str("unknown")
          /\ ev.new.remote_type = Str("unknown")

(***************************************************************************)
(* Totality of calculate_rank.                                             *)
(***************************************************************************)
\* the skills column of the record is NULL or an array of texts
CanonicalSkills(job) ==
    \/ job.skills.t = "none"
    \/ /\ job.skills.t = "list"
       /\ \A k \in 1..Len(job.skills.items) : job.skills.items[k].t = "str"

\* C29: for every record with canonical field types and every profile the
\* configuration loader accepts, a target band of zero width or with min
\* above max included, calculate_rank returns a score and an explanation
\* and never raises
C29_RankTotal ==
    (/\ call.fn = "calculate_rank"
     /\ call.pc = "returned"
     /\ CanonicalSkills(call.job)) =>
        /\ call.result.err = ""
        /\ DOMAIN call.result.rank_explain = Subscores

(***************************************************************************)
(* Frame of the ranking persistence.                                       *)
(***************************************************************************)
\* the rankings of the call whose hash_key a row of the table has
Stored(rows, rankings) ==
    {k \in 1..Len(rankings) : \E x \in rows : x.hash_key = rankings[k].hash_key}

\* C30: update_jobs_ranking_batch changes only rank_score and rank_explain
\* of rows whose hash_key is stored; a ranking for a hash_key that is not
\* stored inserts nothing, leaves the table unchanged and is not counted in
\* the number returned
C30_RankingFrame ==
    rank_ev.kind = "end" =>
        LET keys == {rank_ev.rankings[k].hash_key : k \in 1..Len(rank_ev.rankings)}
        IN  /\ fact = rank_ev.after
            /\ Cardinality(fact) = Cardinality(rank_ev.before)
            /\ \A x \in rank_ev.before :
                  \E y \in fact :
                      /\ y = [x EXCEPT !.rank_score = y.rank_score,
                                       !.rank_explain = y.rank_explain]
                      /\ x.hash_key \notin keys => y = x
            /\ rank_ev.value <= Cardinality(Stored(rank_ev.before, rank_ev.rankings))
            /\ Stored(rank_ev.before, rank_ev.rankings) = {} =>
                  (fact = rank_ev.before /\ rank_ev.value = 0)

\* a batch of a ranking for a stored hash_key and one for a hash_key that
\* no row has was committed: one row counted, one row changed
C30_Witness ==
    /\ rank_ev.kind = "end" /\ rank_ev.outcome = "return" /\ rank_ev.txn = "ok"
    /\ Len(rank_ev.rankings) = 2
    /\ rank_ev.rankings[1].hash_key = "h9"
    /\ rank_ev.rankings[2].hash_key = "h1"
    /\ rank_ev.value = 1
    /\ Cardinality(fact \ rank_ev.before) = 1
    /\ \A x \in fact : x.hash_key # "h9"

====
